---- MODULE Spec2Model ----
(***************************************************************************)
(* Model of the ATS scoring service (ats-service/app).                     *)
(*                                                                         *)
(* Numbers are fixed point.  Scores (sub-scores, heuristic score, final    *)
(* score, breakdown values) are integers counting hundredths of a point:   *)
(* 10.0 points is 1000, the scaling factor 0.98 is 98.  A similarity or    *)
(* relevance value is an integer counting hundredths: 0.3 is 30, 1.0 is    *)
(* 100.  An Optional value is a tuple: None is << >>, the value v is <<v>>.*)
(***************************************************************************)
EXTENDS Integers, Sequences, FiniteSets, TLC

VARIABLES
    pc,               \* position of the modelled call
    skill_count,      \* _score_skills: argument
    skills_score,     \* _score_skills: returned value (Optional)
    skills_prev,      \* argument and result of the call before (Optional)
    heuristics_score, \* normalize_score: argument
    relevance,        \* normalize_score: argument (Optional)
    norm_result,      \* normalize_score: returned (total, breakdown) (Optional)
    norm_prev,        \* arguments and result of the call before (Optional)
    resume_text,      \* ats_similarity_score_sbert: argument
    jd_text,          \* ats_similarity_score_sbert: argument
    sbert_model,      \* app.sbert_model, the embedding handle (Optional)
    sbert_enabled,    \* app.SBERT_ENABLED
    stop_words,       \* app.STOP_WORDS (Optional set of words)
    sim_local,        \* locals of the similarity call in progress
    sim_result,       \* what the similarity call returned (Optional float)
    sim_raised,       \* an exception left ats_similarity_score_sbert
    sim_hist,         \* what happened during the similarity call
    heur_text,        \* compute_heuristics: argument text, the resume text
    parsed_sections,  \* compute_heuristics: argument, section name -> Optional text
    parsing_errors,   \* compute_heuristics: argument, list of messages
    heur_local,       \* the five section scores of the call (Optional)
    heur_result,      \* returned (score, feedback, breakdown) (Optional)
    job_description,  \* /parse: the job_description form field (Optional)
    upload,           \* /parse: the uploaded file, its kind and what it holds
    parsed_skills,    \* /parse: all_skills, extract_skills_from_resume(raw_text)
    response,         \* /parse: what the handler returned (Optional)
    parse_raised,     \* an exception left the /parse handler
    pass_prev,        \* what the scoring pass before returned (Optional)
    dedup_skills,     \* deduplicate_skills: argument, a list of skills
    dedup_result,     \* deduplicate_skills: returned list (Optional)
    dedup_again,      \* deduplicate_skills of the returned list (Optional)
    requests          \* concurrent /parse requests: the locals of each

dedupVars == <<dedup_skills, dedup_result, dedup_again>>
skillVars == <<skill_count, skills_score, skills_prev, dedupVars, requests>>
normVars == <<heuristics_score, relevance, norm_result, norm_prev>>
simVars == <<resume_text, jd_text, sbert_model, sbert_enabled, stop_words,
             sim_local, sim_result, sim_raised, sim_hist>>
heurVars == <<heur_text, parsed_sections, parsing_errors, heur_local, heur_result>>
parseVars == <<job_description, upload, parsed_skills, response, parse_raised,
               pass_prev>>
vars == <<pc, skillVars, normVars, simVars, heurVars, parseVars>>

None == << >>
Some(v) == <<v>>

Min(a, b) == IF a <= b THEN a ELSE b
Max(a, b) == IF a >= b THEN a ELSE b

(* Python round(x, k) on a non-negative value x counted in units of which  *)
(* `unit` make one step of the k-th decimal: nearest step, ties to even.   *)
RoundTo(x, unit) ==
    LET q == x \div unit
        r == x % unit
    IN  IF 2 * r < unit THEN q
        ELSE IF 2 * r > unit THEN q + 1
        ELSE IF q % 2 = 0 THEN q ELSE q + 1

(***************************************************************************)
(* Python strings.  A text is a TLA+ string; s[i] is Ch(s, i).             *)
(***************************************************************************)
Ch(s, i) == SubSeq(s, i, i)
CharsOf(s) == {Ch(s, i) : i \in 1..Len(s)}

LowerAlphabet == "abcdefghijklmnopqrstuvwxyz"
UpperAlphabet == "ABCDEFGHIJKLMNOPQRSTUVWXYZ"
LowerLetters == CharsOf(LowerAlphabet)
UpperLetters == CharsOf(UpperAlphabet)
Digits == CharsOf("0123456789")
Whitespace == {" ", "\n", "\t"}
WordChars == LowerLetters \cup UpperLetters \cup Digits \cup {"_"}

(* str.lower() *)
LowerChar(c) ==
    IF c \in UpperLetters
    THEN Ch(LowerAlphabet, CHOOSE i \in 1..26 : Ch(UpperAlphabet, i) = c)
    ELSE c

RECURSIVE LowerRange(_, _, _)
LowerRange(s, a, b) ==
    IF a > b THEN ""
    ELSE IF a = b THEN LowerChar(Ch(s, a))
    ELSE LET m == (a + b) \div 2
         IN  LowerRange(s, a, m) \o LowerRange(s, m + 1, b)

Lower(s) == LowerRange(s, 1, Len(s))

(* k in s *)
In(k, s) ==
    \E i \in 1..(Len(s) - Len(k) + 1) : SubSeq(s, i, i + Len(k) - 1) = k

(* s[i:].startswith(k), i counted from 1 *)
StartsAt(s, i, k) ==
    /\ i >= 1
    /\ i + Len(k) - 1 <= Len(s)
    /\ SubSeq(s, i, i + Len(k) - 1) = k

(* any(k in s for k in keys) and sum(1 for k in keys if k in s)            *)
AnyIn(keys, s) == \E k \in keys : In(k, s)
CountIn(keys, s) == Cardinality({k \in keys : In(k, s)})

(* The index after the longest run of characters of class cls that starts  *)
(* at index i: what a greedy cls* consumes.                                *)
RECURSIVE SpanEnd(_, _, _)
SpanEnd(s, i, cls) ==
    IF i <= Len(s) /\ Ch(s, i) \in cls THEN SpanEnd(s, i + 1, cls) ELSE i

(* The index before the longest run of class cls that ends at index i.     *)
RECURSIVE SpanStart(_, _, _)
SpanStart(s, i, cls) ==
    IF i >= 1 /\ Ch(s, i) \in cls THEN SpanStart(s, i - 1, cls) ELSE i

MinOf(S) == CHOOSE x \in S : \A y \in S : x <= y

(* int(digits) *)
RECURSIVE StrToNat(_, _)
StrToNat(d, acc) ==
    IF d = "" THEN acc
    ELSE StrToNat(SubSeq(d, 2, Len(d)),
                  10 * acc + (CHOOSE n \in 0..9 : Ch("0123456789", n + 1) = Ch(d, 1)))

(* The n-th maximal run of characters of class cls in s; starts is the set *)
(* of the indices where a run starts.                                      *)
RunAt(s, starts, n, cls) ==
    LET from == CHOOSE p \in starts : Cardinality({q \in starts : q <= p}) = n
    IN  SubSeq(s, from, SpanEnd(s, from, cls) - 1)

(* The maximal runs of characters of class cls in s, in order.             *)
Runs(s, cls) ==
    LET starts == {i \in 1..Len(s) :
                      Ch(s, i) \in cls /\ (i = 1 \/ Ch(s, i - 1) \notin cls)}
    IN  [n \in 1..Cardinality(starts) |-> RunAt(s, starts, n, cls)]

(* sep.join(words), from the i-th word on *)
RECURSIVE JoinFrom(_, _, _)
JoinFrom(sep, words, i) ==
    IF i > Len(words) THEN ""
    ELSE IF i = Len(words) THEN words[i]
    ELSE words[i] \o sep \o JoinFrom(sep, words, i + 1)

(* " ".join(words) *)
Join(words) == JoinFrom(" ", words, 1)

(***************************************************************************)
(* text_cleaner.py: clean_text                                             *)
(***************************************************************************)
(* Lowercase, every character outside [a-z\s] replaced by a space,         *)
(* whitespace collapsed and stripped: what is left is the runs of letters  *)
(* joined by single spaces; then the stopwords are dropped.                *)
clean_text(text, sw) ==
    IF text = "" THEN ""
    ELSE LET words == Runs(Lower(text), LowerLetters)
         IN  IF sw # None /\ sw[1] # {}
             THEN Join(SelectSeq(words, LAMBDA w : w \notin sw[1]))
             ELSE Join(words)

(***************************************************************************)
(* Regular expressions of scorer.py.  MatchEnd(pat, s, i) is the index     *)
(* after the match of pattern pat that starts at index i, 0 without one.   *)
(***************************************************************************)
(* \d+ then one of the words, whitespace allowed between *)
CountedWordEnd(s, i, words) ==
    LET d == SpanEnd(s, i, Digits)
        w == SpanEnd(s, d, Whitespace)
        hit == {k \in words : StartsAt(s, w, k)}
    IN  IF d = i \/ hit = {} THEN 0
        ELSE w + Len(CHOOSE k \in hit : \A o \in hit : Len(o) <= Len(k))

(* the number group, \d+ \.? \d* : digits, a dot if one follows, digits *)
NumberEnd(s, i) ==
    LET d == SpanEnd(s, i, Digits)
    IN  IF d = i THEN i
        ELSE IF StartsAt(s, d, ".") THEN SpanEnd(s, d + 1, Digits) ELSE d

METRIC_WORDS ==
    {"users", "customers", "clients", "projects", "applications", "team",
     "engineers", "developers"}
IMPACT_WORDS == {"users", "downloads", "stars", "forks", "views"}

(* number group ending before n, \s*, then one of the unit words *)
DurationEnd(s, i, n, units) ==
    IF n > i /\ (\E u \in units : StartsAt(s, SpanEnd(s, n, Whitespace), u))
    THEN n ELSE 0

(* \d+% | \$\d+[kmb]? | \d+\s*(?:users|customers|...) ; d and m are the   *)
(* ends of the digits from i and from i + 1                                *)
MetricEnd(s, i, d, m) ==
    IF d > i /\ StartsAt(s, d, "%") THEN d + 1
    ELSE IF StartsAt(s, i, "$") /\ m > i + 1
         THEN IF m <= Len(s) /\ Ch(s, m) \in {"k", "m", "b"} THEN m + 1 ELSE m
    ELSE CountedWordEnd(s, i, METRIC_WORDS)

(* \d+\s*(?:users|downloads|stars|forks|views)|deployed|production|live ;  *)
(* c is the end of the counted word from i                                 *)
ImpactEnd(s, i, c) ==
    IF c > 0 THEN c
    ELSE IF StartsAt(s, i, "deployed") THEN i + 8
    ELSE IF StartsAt(s, i, "production") THEN i + 10
    ELSE IF StartsAt(s, i, "live") THEN i + 4
    ELSE 0

MatchEnd(pat, s, i) ==
    CASE pat = "years" ->
           (* number group, \s*, then years? or yrs? ; the end of the group *)
           DurationEnd(s, i, NumberEnd(s, i), {"year", "yr"})
      [] pat = "months" ->
           (* number group, \s*, then months? or mos? *)
           DurationEnd(s, i, NumberEnd(s, i), {"month", "mo"})
      [] pat = "year4" ->
           (* 20[12]\d *)
           IF /\ StartsAt(s, i, "20")
              /\ i + 3 <= Len(s)
              /\ Ch(s, i + 2) \in {"1", "2"}
              /\ Ch(s, i + 3) \in Digits
           THEN i + 4 ELSE 0
      [] pat = "metrics" ->
           MetricEnd(s, i, SpanEnd(s, i, Digits), SpanEnd(s, i + 1, Digits))
      [] pat = "impact" ->
           ImpactEnd(s, i, CountedWordEnd(s, i, IMPACT_WORDS))
      [] pat = "project" ->
           (* str.count('project') *)
           IF StartsAt(s, i, "project") THEN i + 7 ELSE 0

(* re.findall: the matches from left to right, none overlapping another;   *)
(* each as [from, to), the indices of its first character and after it.    *)
(* ends[j] is the end of the match that starts at j, 0 without one.        *)
RECURSIVE PickMatches(_, _)
RECURSIVE MatchAt(_, _)
MatchAt(ends, j) ==
    <<[from |-> j, to |-> ends[j]]>> \o PickMatches(ends, ends[j])

PickMatches(ends, from) ==
    LET left == {j \in from..Len(ends) : ends[j] > 0}
    IN  IF left = {} THEN << >> ELSE MatchAt(ends, MinOf(left))

FindAll(pat, s) ==
    PickMatches([j \in 1..Len(s) |-> MatchEnd(pat, s, j)], 1)

(* float(match) of a number group, in hundredths; digits after the        *)
(* second decimal are dropped                                              *)
NumberHundredths(num) ==
    LET d == SpanEnd(num, 1, Digits)
        frac == SubSeq(num, d + 1, Min(Len(num), d + 2))
    IN  100 * StrToNat(SubSeq(num, 1, d - 1), 0)
          + (IF Len(frac) = 0 THEN 0
             ELSE IF Len(frac) = 1 THEN 10 * StrToNat(frac, 0)
             ELSE StrToNat(frac, 0))

RECURSIVE SumHundredths(_, _, _)
SumHundredths(s, matches, k) ==
    IF k > Len(matches) THEN 0
    ELSE NumberHundredths(SubSeq(s, matches[k].from, matches[k].to - 1))
           + SumHundredths(s, matches, k + 1)

(***************************************************************************)
(* scorer.py: _score_education                                             *)
(***************************************************************************)
DOCTORATE == {"ph.d", "phd", "doctorate", "doctoral"}
MASTER == {"master", "m.s.", "m.sc", "mba", "m.tech", "mtech"}
BACHELOR == {"bachelor", "b.s.", "b.sc", "b.tech", "btech", "b.e.", "undergraduate"}
DIPLOMA == {"diploma", "associate", "certificate"}
relevant_fields ==
    {"computer science", "software", "engineering", "information technology",
     "data science", "artificial intelligence", "machine learning", "mathematics",
     "electrical", "electronics", "cs", "cse", "it", "ece"}
top_schools ==
    {"mit", "stanford", "iit", "nit", "iiit", "bits", "harvard", "berkeley",
     "carnegie mellon", "georgia tech", "caltech", "oxford", "cambridge"}

EducationPoints(text) ==
    200 + (IF AnyIn(DOCTORATE, text) THEN 500
           ELSE IF AnyIn(MASTER, text) THEN 400
           ELSE IF AnyIn(BACHELOR, text) THEN 300
           ELSE IF AnyIn(DIPLOMA, text) THEN 150
           ELSE 0)
        + (IF AnyIn(relevant_fields, text) THEN 150 ELSE 0)
        + (IF AnyIn(top_schools, text) THEN 100 ELSE 0)

_score_education_unguarded(education_text, full_text) ==
    Min(1000, EducationPoints(Lower(education_text \o " " \o full_text)))

_score_education(education_text, full_text) ==
    IF education_text = "" /\ ~In("education", full_text) THEN 0
    ELSE Min(1000, EducationPoints(Lower(education_text \o " " \o full_text)))

(***************************************************************************)
(* scorer.py: _score_experience                                            *)
(***************************************************************************)
action_verbs ==
    {"led", "developed", "implemented", "designed", "architected", "built",
     "managed", "created", "optimized", "improved", "reduced", "increased",
     "delivered", "launched", "mentored", "scaled", "automated", "integrated",
     "deployed", "spearheaded", "established", "transformed", "pioneered"}
seniority ==
    {"senior", "lead", "principal", "staff", "architect", "manager", "director",
     "head", "vp", "cto", "ceo"}
top_companies ==
    {"google", "amazon", "microsoft", "meta", "facebook", "apple", "netflix",
     "uber", "airbnb", "stripe", "linkedin", "twitter", "salesforce", "adobe"}

(* scorer.py:354-362, in hundredths of a month *)
total_months(text) ==
    12 * SumHundredths(text, FindAll("years", text), 1)
        + SumHundredths(text, FindAll("months", text), 1)

(* set(years) *)
DistinctMatches(s, matches) ==
    {SubSeq(s, matches[k].from, matches[k].to - 1) : k \in 1..Len(matches)}

(* scorer.py:382-390 *)
DateRangeTier(distinct_years, text) ==
    IF distinct_years >= 2 THEN 400
    ELSE IF distinct_years = 1 /\ (In("present", text) \/ In("current", text))
         THEN 400
    ELSE IF distinct_years = 1 THEN 250
    ELSE IF Len(text) > 200 THEN 100
    ELSE 0

(* scorer.py:378-390, the date-range fallback *)
DateRangePoints(text) ==
    DateRangeTier(Cardinality(DistinctMatches(text, FindAll("year4", text))), text)

(* scorer.py:366-376 *)
DurationTier(months, text) ==
    IF months >= 600 THEN 400
    ELSE IF months >= 300 THEN 300
    ELSE IF months >= 100 THEN 200
    ELSE DateRangePoints(text)

(* scorer.py:366-390 *)
DurationPoints(text) == DurationTier(total_months(text), text)

(* scorer.py:392-415 *)
ExperienceQualityPoints(text) ==
    Min(250, CountIn(action_verbs, text) * 35)
        + Min(200, Len(FindAll("metrics", text)) * 40)
        + Min(100, CountIn(seniority, text) * 50)
        + (IF AnyIn(top_companies, text) THEN 50 ELSE 0)

(* scorer.py:342-417, text = (experience_text + ' ' + full_text).lower() *)
ExperiencePoints(text) ==
    Min(1000, 10 * RoundTo(DurationPoints(text) + ExperienceQualityPoints(text), 10))

_score_experience(experience_text, full_text) ==
    IF experience_text = "" /\ ~In("experience", full_text) THEN 0
    ELSE ExperiencePoints(Lower(experience_text \o " " \o full_text))

(***************************************************************************)
(* scorer.py: _score_projects                                              *)
(***************************************************************************)
project_indicators ==
    {"github.com", "project:", "built a", "created a", "developed a", "hackathon"}
tech_indicators ==
    {"react", "node", "python", "javascript", "typescript", "java", "golang",
     "rust", "aws", "docker", "kubernetes", "mongodb", "postgresql", "api",
     "machine learning", "tensorflow", "pytorch", "database", "microservices"}
links ==
    {"github.com", "gitlab.com", "bitbucket", "herokuapp", "vercel", "netlify",
     "http://", "https://"}

(* scorer.py:485-489 *)
ProjectWordsPoints(project_words) ==
    IF project_words >= 3 THEN 100
    ELSE IF project_words >= 2 THEN 50
    ELSE 0

(* scorer.py:464-489 *)
ProjectPoints(text_lower) ==
    200 + Min(300, CountIn(tech_indicators, text_lower) * 50)
        + Min(200, Len(FindAll("impact", text_lower)) * 50)
        + Min(200, CountIn(links, text_lower) * 70)
        + ProjectWordsPoints(Len(FindAll("project", text_lower)))

_score_projects(projects_text, full_text) ==
    IF projects_text = ""
    THEN IF ~AnyIn(project_indicators, full_text) THEN 0
         ELSE Min(1000, ProjectPoints(Lower(full_text)))
    ELSE Min(1000, ProjectPoints(Lower(projects_text \o " " \o full_text)))

(***************************************************************************)
(* parser.py: preprocess_pdf_text, find_section                            *)
(***************************************************************************)
section_keywords ==
    <<"Experience", "Education", "Skills", "Technical Skills", "Projects",
      "Certifications", "Leadership", "Extracurriculars", "Achievements",
      "Hackathon", "Summary", "Objective", "Work Experience",
      "Professional Experience">>

all_headers ==
    {"experience", "education", "skills", "technical skills", "projects",
     "certifications", "leadership", "extracurriculars", "achievements",
     "hackathon", "summary", "objective", "work experience",
     "professional experience"}

(* str.strip() *)
Strip(s) ==
    LET a == SpanEnd(s, 1, Whitespace)
        b == SpanStart(s, Len(s), Whitespace)
    IN  IF a > b THEN "" ELSE SubSeq(s, a, b)

(* str.splitlines(): breaks is the set of the indices of the newlines of s, *)
(* with Len(s) + 1 added when s does not end with one                      *)
LineOf(s, breaks, n) ==
    LET end == CHOOSE p \in breaks : Cardinality({q \in breaks : q <= p}) = n
        before == {q \in breaks : q < end}
    IN  SubSeq(s, (IF before = {} THEN 0
                   ELSE CHOOSE q \in before : \A o \in before : o <= q) + 1,
               end - 1)

SplitLines(s) ==
    LET breaks == {i \in 1..Len(s) : Ch(s, i) = "\n"}
                    \cup (IF s # "" /\ Ch(s, Len(s)) # "\n"
                          THEN {Len(s) + 1} ELSE {})
    IN  [n \in 1..Cardinality(breaks) |-> LineOf(s, breaks, n)]

(* text.replace('\x0c', '\n'), on s[a..b] *)
RECURSIVE ReplaceFormFeed(_, _, _)
ReplaceFormFeed(s, a, b) ==
    IF a > b THEN ""
    ELSE IF a = b THEN (IF Ch(s, a) = "\f" THEN "\n" ELSE Ch(s, a))
    ELSE ReplaceFormFeed(s, a, (a + b) \div 2)
           \o ReplaceFormFeed(s, (a + b) \div 2 + 1, b)

(* (\w)(keyword), case ignored: ends of the matches of s; l is s lowercased, *)
(* k the keyword lowercased                                                 *)
BeforeEnds(s, l, k) ==
    [j \in 1..Len(s) |->
        IF Ch(s, j) \in WordChars /\ StartsAt(l, j + 1, k)
        THEN j + 1 + Len(k) ELSE 0]

(* (keyword)([A-Z][a-z]), case ignored *)
AfterEnds(s, l, k) ==
    [j \in 1..Len(s) |->
        IF /\ StartsAt(l, j, k)
           /\ j + Len(k) + 1 <= Len(s)
           /\ Ch(l, j + Len(k)) \in LowerLetters
           /\ Ch(l, j + Len(k) + 1) \in LowerLetters
        THEN j + Len(k) + 2 ELSE 0]

(* re.sub with a newline put into every match, off characters after its    *)
(* start                                                                   *)
RECURSIVE InsertNewlines(_, _, _, _, _)
InsertNewlines(s, matches, n, off, pos) ==
    IF n > Len(matches) THEN SubSeq(s, pos, Len(s))
    ELSE SubSeq(s, pos, matches[n].from + off - 1) \o "\n"
           \o InsertNewlines(s, matches, n + 1, off, matches[n].from + off)

(* parser.py:148-158, the two substitutions for one keyword *)
SplitBeforeKeyword(s, k) ==
    InsertNewlines(s, PickMatches(BeforeEnds(s, Lower(s), k), 1), 1, 1, 1)
SplitAfterKeyword(s, k) ==
    InsertNewlines(s, PickMatches(AfterEnds(s, Lower(s), k), 1), 1, Len(k), 1)
SplitAtKeyword(s, k) == SplitAfterKeyword(SplitBeforeKeyword(s, k), k)

(* parser.py:148-158, the loop over the keywords from the n-th on; each     *)
(* pass is computed before the next one starts                             *)
RECURSIVE PreprocessFrom(_, _)
PreprocessFrom(s, n) ==
    IF n > Len(section_keywords) THEN s
    ELSE CHOOSE r \in {PreprocessFrom(processed, n + 1) :
                          processed \in {SplitAtKeyword(s, Lower(section_keywords[n]))}} :
             TRUE

preprocess_pdf_text(text) ==
    PreprocessFrom(ReplaceFormFeed(text, 1, Len(text)), 1)

(* parser.py:233, ^[A-Z\s]{3,}$ matches the stripped line, or it ends with ':' *)
HeaderLike(ln) ==
    \/ Len(ln) >= 3 /\ CharsOf(ln) \subseteq (UpperLetters \cup Whitespace)
    \/ Len(ln) >= 1 /\ Ch(ln, Len(ln)) = ":"

(* parser.py:223-230 *)
IsNextSection(l_lower, first_name) ==
    \E header \in all_headers :
        header # Lower(first_name) /\ StartsAt(l_lower, 1, header)

(* parser.py:212-237, the lines collected after the header line *)
RECURSIVE CollectFrom(_, _, _, _)
RECURSIVE CollectLine(_, _, _, _, _)
CollectLine(lines, i, collected, first_name, ln) ==
    IF ln = ""
    THEN IF collected # << >> THEN collected
         ELSE CollectFrom(lines, i + 1, collected, first_name)
    ELSE IF IsNextSection(Lower(ln), first_name) \/ HeaderLike(ln) THEN collected
    ELSE CollectFrom(lines, i + 1, Append(collected, ln), first_name)

CollectFrom(lines, i, collected, first_name) ==
    IF i > Len(lines) THEN collected
    ELSE CollectLine(lines, i, collected, first_name, Strip(lines[i]))

(* parser.py:239 *)
SectionOf(collected) ==
    IF collected = << >> THEN None ELSE Some(Strip(JoinFrom("\n", collected, 1)))

(* parser.py:198-209, the lines that name the section *)
HeaderLines(lines, section_names) ==
    {i \in 1..Len(lines) :
        \E name \in section_names : In(name, Lower(Strip(lines[i])))}

SectionAfter(lines, found, first_name) ==
    IF found = {} THEN None
    ELSE SectionOf(CollectFrom(lines, MinOf(found) + 1, << >>, first_name))

SectionIn(lines, section_names, first_name) ==
    SectionAfter(lines, HeaderLines(lines, section_names), first_name)

(* section_names is the set of the names, first_name is section_names[0] *)
find_section(text, section_names, first_name) ==
    SectionIn(SplitLines(preprocess_pdf_text(text)), section_names, first_name)

(***************************************************************************)
(* extractor.py: extract_skills_from_section                               *)
(***************************************************************************)
(* extractor.py:113, the delimiters of the split; the bullet character is  *)
(* outside the alphabet of the modelled resumes                            *)
SkillDelimiters == {"\n", ",", ";", "|"}

(* the tokens between delimiters, stripped *)
SectionTokens(s) ==
    LET tokens == Runs(s, CharsOf(s) \ SkillDelimiters)
    IN  [i \in 1..Len(tokens) |-> Strip(tokens[i])]

extract_skills_from_section(section_text) ==
    IF section_text = None \/ section_text = Some("") THEN << >>
    ELSE SelectSeq(SectionTokens(section_text[1]),
                   LAMBDA t : Len(t) >= 2 /\ Len(t) <= 60)

(***************************************************************************)
(* parser.py: extract_contact_info                                         *)
(***************************************************************************)
EmailChars == WordChars \cup {".", "-"}
PhoneChars == Digits \cup Whitespace \cup {"-", "(", ")"}

(* [\w\.-]+@[\w\.-]+ : the first match starts with the run of address     *)
(* characters before the first "@" that has one on either side             *)
EmailSearch(text) ==
    LET ats == {i \in 2..(Len(text) - 1) :
                   /\ Ch(text, i) = "@"
                   /\ Ch(text, i - 1) \in EmailChars
                   /\ Ch(text, i + 1) \in EmailChars}
    IN  IF ats = {} THEN None
        ELSE LET at == MinOf(ats)
             IN  Some(SubSeq(text, SpanStart(text, at - 1, EmailChars) + 1,
                             SpanEnd(text, at + 1, EmailChars) - 1))

(* an optional "+", a digit, six or more phone characters, a digit: the    *)
(* match that starts at i ends with the last digit of the run, 0 if none   *)
PhoneEnd(text, i) ==
    LET d == IF StartsAt(text, i, "+") THEN i + 1 ELSE i
        run == SpanEnd(text, d + 1, PhoneChars)
        last == {j \in (d + 7)..(run - 1) : Ch(text, j) \in Digits}
    IN  IF d <= Len(text) /\ Ch(text, d) \in Digits /\ last # {}
        THEN CHOOSE j \in last : \A o \in last : o <= j
        ELSE 0

PhoneSearch(text) ==
    LET starts == {i \in 1..Len(text) : PhoneEnd(text, i) > 0}
    IN  IF starts = {} THEN None
        ELSE Some(SubSeq(text, MinOf(starts), PhoneEnd(text, MinOf(starts))))

extract_contact_info(text) ==
    [email |-> EmailSearch(text), phone |-> PhoneSearch(text)]

(***************************************************************************)
(* scorer.py: _score_contact                                               *)
(***************************************************************************)
portfolio_indicators ==
    {"portfolio", "website", ".com/", ".io/", "vercel.app", "netlify.app"}

IsNotNone(opt) == opt # None

(* contact.get(key) is truthy *)
Truthy(opt) == opt # None /\ opt # Some("")

_score_contact(contact, full_text) ==
    Min(1000,
        (IF Truthy(contact.email) THEN 300 ELSE 0)
          + (IF Truthy(contact.phone) THEN 200 ELSE 0)
          + (IF In("linkedin.com", full_text) \/ In("linkedin", full_text)
             THEN 200 ELSE 0)
          + (IF In("github.com", full_text) \/ In("github", full_text)
             THEN 200 ELSE 0)
          + (IF AnyIn(portfolio_indicators, full_text) THEN 100 ELSE 0))

(***************************************************************************)
(* extractor.py: KNOWN_SKILLS, normalize_skill, deduplicate_skills,        *)
(* extract_skills_from_resume                                              *)
(***************************************************************************)
KNOWN_SKILLS ==
    {"python", "java", "javascript", "typescript", "c", "c++", "c#", "go",
     "golang", "rust", "ruby", "php", "swift", "kotlin", "scala", "r",
     "matlab", "perl", "lua", "haskell", "elixir", "clojure", "dart",
     "objective-c", "assembly", "fortran", "cobol", "visual basic", "vb.net",
     "f#", "groovy", "julia", "html", "html5", "css", "css3", "sass", "scss",
     "less", "tailwind", "tailwindcss", "bootstrap", "react", "reactjs",
     "react.js", "angular", "angularjs", "vue", "vuejs", "vue.js", "svelte",
     "nextjs", "next.js", "nuxt", "nuxtjs", "gatsby", "jquery", "webpack",
     "vite", "parcel", "rollup", "babel", "redux", "mobx", "zustand",
     "graphql", "apollo", "material-ui", "mui", "chakra", "ant design",
     "styled-components", "node", "nodejs", "node.js", "express",
     "expressjs", "fastify", "koa", "nestjs", "django", "flask", "fastapi",
     "spring", "spring boot", "springboot", "rails", "ruby on rails",
     "laravel", "symfony", "asp.net", ".net", "dotnet", ".net core", "gin",
     "echo", "fiber", "actix", "rocket", "phoenix", "phoenix framework",
     "sql", "mysql", "postgresql", "postgres", "mongodb", "sqlite", "oracle",
     "redis", "cassandra", "dynamodb", "elasticsearch", "mariadb", "couchdb",
     "neo4j", "firestore", "firebase", "supabase", "prisma", "sequelize",
     "typeorm", "mongoose", "knex", "influxdb", "timescaledb", "cockroachdb",
     "planetscale", "aws", "amazon web services", "azure", "gcp",
     "google cloud", "google cloud platform", "docker", "kubernetes", "k8s",
     "terraform", "ansible", "jenkins", "circleci", "github actions",
     "gitlab ci", "travis ci", "argo", "helm", "istio", "prometheus",
     "grafana", "datadog", "splunk", "new relic", "cloudformation", "pulumi",
     "vagrant", "packer", "consul", "vault", "nomad", "serverless", "lambda",
     "ec2", "s3", "rds", "cloudfront", "route53", "elastic beanstalk", "ecs",
     "eks", "fargate", "cloudwatch", "machine learning", "ml",
     "deep learning", "neural networks", "tensorflow", "pytorch", "keras",
     "scikit-learn", "sklearn", "pandas", "numpy", "scipy", "matplotlib",
     "seaborn", "plotly", "jupyter", "jupyter notebook", "data science",
     "data analysis", "data engineering", "etl", "spark", "apache spark",
     "pyspark", "hadoop", "hive", "kafka", "airflow", "dbt", "snowflake",
     "bigquery", "redshift", "databricks", "nlp",
     "natural language processing", "computer vision", "opencv", "llm",
     "langchain", "hugging face", "transformers", "bert", "gpt", "openai",
     "rag", "android", "ios", "react native", "flutter", "xamarin", "ionic",
     "cordova", "swiftui", "uikit", "jetpack compose", "android studio",
     "xcode", "jest", "mocha", "chai", "jasmine", "playwright", "cypress",
     "selenium", "pytest", "unittest", "junit", "testng", "mockito", "rspec",
     "enzyme", "testing library", "puppeteer", "webdriver", "postman",
     "insomnia", "k6", "locust", "jmeter", "load testing", "unit testing",
     "integration testing", "e2e testing", "git", "github", "gitlab",
     "bitbucket", "svn", "mercurial", "jira", "confluence", "trello",
     "asana", "slack", "notion", "linear", "figma", "sketch", "adobe xd",
     "agile", "scrum", "kanban", "devops", "devsecops", "ci/cd", "cicd",
     "tdd", "bdd", "microservices", "soa", "rest", "restful", "api", "apis",
     "oauth", "jwt", "sso", "saml", "oidc", "graphql", "grpc", "websocket",
     "websockets", "linux", "unix", "bash", "shell", "powershell",
     "windows server", "nginx", "apache", "iis", "rabbitmq", "zeromq",
     "celery", "cron", "systemd", "embedded", "iot", "raspberry pi",
     "arduino", "mqtt", "blockchain", "solidity", "web3", "rust", "wasm",
     "webassembly", "electron", "tauri", "pwa"}

normalize_skill_cased(skill) == Join(Runs(skill, CharsOf(skill) \ Whitespace))

(* skill.lower().strip() with every whitespace run made one space *)
normalize_skill(skill) ==
    LET l == Lower(skill)
    IN  Join(Runs(l, CharsOf(l) \ Whitespace))

RECURSIVE DedupFromBySubstring(_, _, _, _)
DedupFromBySubstring(skills, i, seen, unique_skills) ==
    IF i > Len(skills) THEN unique_skills
    ELSE LET normalized == normalize_skill(skills[i])
         IN  IF normalized # "" /\ ~\E k \in seen : In(k, normalized)
             THEN DedupFromBySubstring(skills, i + 1, seen \cup {normalized},
                                       Append(unique_skills, skills[i]))
             ELSE DedupFromBySubstring(skills, i + 1, seen, unique_skills)

RECURSIVE DedupFrom(_, _, _, _)
DedupFrom(skills, i, seen, unique_skills) ==
    IF i > Len(skills) THEN unique_skills
    ELSE LET normalized == normalize_skill(skills[i])
         IN  IF normalized # "" /\ normalized \notin seen
             THEN DedupFrom(skills, i + 1, seen \cup {normalized},
                            Append(unique_skills, skills[i]))
             ELSE DedupFrom(skills, i + 1, seen, unique_skills)

deduplicate_skills(skills) == DedupFrom(skills, 1, {}, << >>)

(* no call of deduplicate_skills is modelled *)
NoDedupCall ==
    /\ dedup_skills = << >>
    /\ dedup_result = None
    /\ dedup_again = None

(* \b at the gap before index p: a word character on exactly one side *)
WordBoundary(s, p) ==
    (p > 1 /\ Ch(s, p - 1) \in WordChars)
        # (p <= Len(s) /\ Ch(s, p) \in WordChars)

(* the gaps of s where \b holds *)
WordBoundaries(s) == {p \in 1..(Len(s) + 1) : WordBoundary(s, p)}

(* re.search(\b skill \b, s).start(), 0 when there is no match; bounds is  *)
(* WordBoundaries(s)                                                       *)
SkillSearch(skill, s, bounds) ==
    LET hits == {i \in bounds :
                    /\ i + Len(skill) \in bounds
                    /\ SubSeq(s, i, i + Len(skill) - 1) = skill}
    IN  IF hits = {} THEN 0 ELSE MinOf(hits)

(* the order in which the set KNOWN_SKILLS is iterated *)
RECURSIVE IterationOrder(_)
IterationOrder(S) ==
    IF S = {} THEN << >>
    ELSE LET x == CHOOSE x \in S : TRUE
         IN  <<x>> \o IterationOrder(S \ {x})

(* the known skills that re.search finds in the text *)
MatchingSkills(text_lower, bounds) ==
    {k \in KNOWN_SKILLS : SkillSearch(k, text_lower, bounds) > 0}

(* extractor.py:169-183 with the matching skills met in the order known *)
ExtractInOrder(text, text_lower, bounds, known) ==
    deduplicate_skills(
        [n \in 1..Len(known) |->
            LET start == SkillSearch(known[n], text_lower, bounds)
            IN  SubSeq(text, start, start + Len(known[n]) - 1)])

(* the call with the set iterated in the order IterationOrder *)
extract_skills_from_resume(text) ==
    IF text = "" THEN << >>
    ELSE LET text_lower == Lower(text)
             bounds == WordBoundaries(text_lower)
         IN  ExtractInOrder(text, text_lower, bounds,
                            IterationOrder(MatchingSkills(text_lower, bounds)))

(***************************************************************************)
(* scorer.py: _score_skills                                                *)
(***************************************************************************)

(* Largest skill count passed to _score_skills.                            *)
MaxSkillCount == 100
(* Largest number of skills added between two scoring calls.               *)
MaxSkillStep == 3

_score_skills_steep(n) ==
    IF n = 0 THEN 0
    ELSE IF n <= 5 THEN 10 * RoundTo(200 + n * 20, 10)
    ELSE IF n <= 15 THEN 10 * RoundTo(300 + (n - 5) * 40, 10)
    ELSE IF n < 25 THEN 10 * RoundTo(700 + (n - 15) * 40, 10)
    ELSE 1000

_score_skills_dip(n) ==
    IF n = 0 THEN 0
    ELSE IF n <= 5 THEN 10 * RoundTo(300 + n * 20, 10)
    ELSE IF n <= 15 THEN 10 * RoundTo(300 + (n - 5) * 40, 10)
    ELSE IF n < 25 THEN 10 * RoundTo(700 + (n - 15) * 30, 10)
    ELSE 1000

_score_skills(n) ==
    IF n = 0 THEN 0
    ELSE IF n <= 5 THEN 10 * RoundTo(200 + n * 20, 10)
    ELSE IF n <= 15 THEN 10 * RoundTo(300 + (n - 5) * 40, 10)
    ELSE IF n < 25 THEN 10 * RoundTo(700 + (n - 15) * 30, 10)
    ELSE 1000

(***************************************************************************)
(* scorer.py: compute_heuristics                                           *)
(***************************************************************************)
SectionGetAsText(sections, key) ==
    IF key \notin DOMAIN sections THEN ""
    ELSE IF sections[key] = None THEN "None"
    ELSE sections[key][1]

(* parsed_sections.get(key, '') or '' *)
SectionGet(sections, key) ==
    IF key \notin DOMAIN sections \/ sections[key] = None THEN ""
    ELSE sections[key][1]

(* scorer.py:272-273 *)
parsing_penalty_uncapped(errors) == Len(errors) * 500

parsing_penalty(errors) == Min(1000, Len(errors) * 500)

SectionFeedbackNeverMissing(section_score, missing, low) ==
    IF section_score < 500 THEN <<low>> ELSE << >>

(* feedback.append(msg) when the section score is below 5 *)
SectionFeedback(section_score, missing, low) ==
    IF section_score < 500
    THEN IF section_score = 0 THEN <<missing>> ELSE <<low>>
    ELSE << >>

(* scorer.py:272-276, the penalty subtracted *)
PenaltyFor(errors) == IF Len(errors) > 0 THEN parsing_penalty(errors) ELSE 0

ReportedErrorsAll(errors) == errors

(* scorer.py:276, parsing_errors[:3] *)
ReportedErrors(errors) == SubSeq(errors, 1, Min(3, Len(errors)))

ClampScoreAbove(score) == Min(5000, score)

(* scorer.py:279, score = max(0.0, min(50.0, score)) *)
ClampScore(score) == Max(0, Min(5000, score))

(* what compute_heuristics returns for the section scores its calls gave,  *)
(* with those scores                                                       *)
HeuristicsOutcome(edu_score, exp_score, all_skills, skills, proj_score, contact_score, errors, penalty) ==
    [edu_score |-> edu_score,
     exp_score |-> exp_score,
     skills_score |-> skills,
     proj_score |-> proj_score,
     contact_score |-> contact_score,
     score |-> ClampScore(edu_score + exp_score + skills + proj_score
                              + contact_score - penalty),
     feedback |->
         SectionFeedback(edu_score,
             "Missing or undetected Education section",
             "Education section lacks detail - include degree, field, and institution")
         \o SectionFeedback(exp_score,
             "Missing or undetected Experience section",
             "Experience lacks impact - add action verbs (led, developed, increased) and quantified results (40%, $1M, 10K users)")
         \o (IF skills < 500
              THEN <<"Only " \o ToString(Len(all_skills))
                      \o " technical skills detected - add more relevant technologies (target: 20+)">>
              ELSE << >>)
         \o SectionFeedback(proj_score,
             "Missing Projects section - showcase your work with technical details",
             "Projects need more detail - include tech stack, your role, and impact")
         \o (IF contact_score < 500
              THEN <<"Contact info incomplete - add email, phone, and LinkedIn/GitHub">>
              ELSE << >>)
         \o (IF Len(errors) > 0
              THEN <<"Parsing issues detected: "
                      \o JoinFrom("; ", ReportedErrors(errors), 1)>>
              ELSE << >>),
     breakdown |->
         [education |-> 10 * RoundTo(edu_score, 10),
          experience |-> 10 * RoundTo(exp_score, 10),
          skills |-> 10 * RoundTo(skills, 10),
          projects |-> 10 * RoundTo(proj_score, 10),
          contact |-> 10 * RoundTo(contact_score, 10),
          parsingPenalty |-> -penalty]]

(* the skills part of the call: extraction, count, score *)
SkillsOutcome(all_skills, edu_score, exp_score, proj_score, contact_score, errors) ==
    HeuristicsOutcome(edu_score, exp_score, all_skills,
                      _score_skills(Len(all_skills)), proj_score, contact_score,
                      errors, PenaltyFor(errors))

(* the call with all_skills what extract_skills_from_resume returned *)
SectionScoresWith(all_skills, txt, text_lower, sections, errors) ==
    SkillsOutcome(all_skills,
                  _score_education(SectionGet(sections, "education"), text_lower),
                  _score_experience(SectionGet(sections, "experience"), text_lower),
                  _score_projects(SectionGet(sections, "projects"), text_lower),
                  _score_contact(extract_contact_info(txt), text_lower),
                  errors)

compute_heuristics(txt, sections, errors) ==
    SectionScoresWith(extract_skills_from_resume(txt), txt, Lower(txt),
                      sections, errors)

NoHeuristicsCall ==
    /\ heur_text = ""
    /\ parsed_sections = << >>
    /\ parsing_errors = << >>
    /\ heur_local = None
    /\ heur_result = None

(* no /parse request is modelled *)
NoParseCall ==
    /\ job_description = None
    /\ upload = None
    /\ parsed_skills = << >>
    /\ response = None
    /\ parse_raised = FALSE
    /\ pass_prev = None
    /\ requests = << >>

(***************************************************************************)
(* scorer.py: normalize_score                                              *)
(***************************************************************************)

SCALE_WITH_JD == 98
SCALE_WITHOUT_JD == 98

(* Upper ends of the argument ranges: the clamp of compute_heuristics      *)
(* (50.0 points) and of ats_similarity_score_sbert (1.0).                  *)
MaxHeuristic == 5000
MaxRelevance == 100
(* compute_heuristics returns sums of one-decimal sub-scores.              *)
HeuristicScores == {10 * t : t \in 0..(MaxHeuristic \div 10)}
Relevances == {None} \cup {Some(r) : r \in 0..MaxRelevance}
(* Largest increase of an argument between two normalize_score calls, in   *)
(* tenths of a point (heuristic) and hundredths (relevance).               *)
MaxRaise == 1

IsNoJdOnlyNone(rel) == rel = None

(* scorer.py:623, the "no JD" test *)
IsNoJd(rel) == rel = None \/ rel = Some(0)

relevance_component_steep(r) ==
    IF r < 30 THEN r * 35
    ELSE IF r < 60 THEN 1050 + (r - 30) * 45
    ELSE 2400 + (r - 60) * 75

(* scorer.py:636-641, the three-segment relevance curve (r in hundredths,  *)
(* result in hundredths of a point)                                        *)
relevance_component(r) ==
    IF r < 30 THEN r * 35
    ELSE IF r < 60 THEN 1050 + (r - 30) * 45
    ELSE 2400 + (r - 60) * 65

(* total = raw_total * scale, clamped to [0, 100] and rounded to 2         *)
(* decimals; raw in hundredths of a point, scale in hundredths             *)
ScaleClampRound(raw, scale) ==
    RoundTo(Max(0, Min(100 * 100 * 100, raw * scale)), 100)

normalize_score(h, rel) ==
    IF IsNoJd(rel)
    THEN LET raw_total == h * 2
         IN  [total |-> ScaleClampRound(raw_total, SCALE_WITHOUT_JD),
              breakdown |-> [heuristics |-> h * 2,
                             relevance |-> 0,
                             scalingFactor |-> SCALE_WITHOUT_JD]]
    ELSE LET comp == relevance_component(rel[1])
             raw_total == h + comp
         IN  [total |-> ScaleClampRound(raw_total, SCALE_WITH_JD),
              breakdown |-> [heuristics |-> h,
                             relevance |-> comp,
                             scalingFactor |-> SCALE_WITH_JD]]

(***************************************************************************)
(* Python floats that may be NaN: every comparison with NaN is false.      *)
(***************************************************************************)
NaN == [nan |-> TRUE, v |-> 0]
Num(x) == [nan |-> FALSE, v |-> x]
FloatLt(a, b) == ~a.nan /\ ~b.nan /\ a.v < b.v
(* min(a, b) and max(a, b) keep a unless b < a, b > a                      *)
PyMin(a, b) == IF FloatLt(b, a) THEN b ELSE a
PyMax(a, b) == IF FloatLt(a, b) THEN b ELSE a

(***************************************************************************)
(* scorer.py: compute_relevance_tfidf and ats_similarity_score_sbert.      *)
(* The libraries (TfidfVectorizer, the embedding engine, cosine_similarity)*)
(* are modelled by the outcomes they can have: a value, NaN, an exception. *)
(* 101 and -101 stand for the floats just outside [-1, 1] that             *)
(* cosine_similarity returns for parallel vectors (1.0000000000000002).    *)
(***************************************************************************)
ENGLISH_STOP_WORDS == {"the", "and", "a", "an", "of", "to", "in", "for", "with", "is"}

(* TfidfVectorizer(stop_words='english'): lowercased tokens of two or more *)
(* word characters, English stopwords dropped.                             *)
TfidfTokens(text) ==
    SelectSeq(Runs(Lower(text), WordChars),
              LAMBDA w : Len(w) >= 2 /\ w \notin ENGLISH_STOP_WORDS)

TermsOf(tokens) == {tokens[i] : i \in 1..Len(tokens)}
TermCount(tokens, t) == Cardinality({i \in 1..Len(tokens) : tokens[i] = t})
SameBag(a, b) ==
    /\ TermsOf(a) = TermsOf(b)
    /\ \A t \in TermsOf(a) : TermCount(a, t) = TermCount(b, t)

(* cosine_similarity of the two TF-IDF rows (no negative weights): 0.0     *)
(* without a shared term, 1.0 or just above for equal term counts.         *)
TfidfCosineValues(jd, resume) ==
    LET a == TfidfTokens(jd)
        b == TfidfTokens(resume)
    IN  IF TermsOf(a) \cap TermsOf(b) = {} THEN {Num(0)}
        ELSE IF SameBag(a, b) THEN {Num(100), Num(101), NaN}
        ELSE {Num(1), Num(29), Num(30), Num(59), Num(60), Num(99), NaN}

(* cosine_similarity of two embeddings *)
SbertCosineValues ==
    {Num(v) : v \in {0 - 101, 0 - 100, 0 - 50, 0, 29, 30, 59, 60, 100, 101}}
        \cup {NaN}

SimTexts ==
    {"", "  ", "Python Developer", "python developer", "java engineer",
     "Senior Python engineer", "the and", "C++ 42"}
StopWordSets == {None, Some({"the", "and", "with"})}
SbertModels == {None, Some("all-MiniLM-L6-v2")}

NoSimLocal == [resume_clean |-> "", jd_clean |-> "", similarity |-> None]
NoSimHist ==
    [tfidf_calls |-> 0, sbert_attempts |-> 0, failed |-> FALSE,
     nan_seen |-> FALSE, tfidf_ret |-> None]

(* scorer.py:128 and :154, the call of compute_relevance_tfidf *)
CallTfidf(failed) ==
    /\ pc' = "tfidf_fit"
    /\ sim_hist' = [sim_hist EXCEPT !.tfidf_calls = @ + 1,
                                    !.failed = @ \/ failed]
    /\ UNCHANGED <<sim_local, sim_result, sim_raised>>

SbertExceptPropagate ==
    /\ pc' = "sim_done"
    /\ sim_raised' = TRUE
    /\ sim_hist' = [sim_hist EXCEPT !.failed = TRUE]
    /\ UNCHANGED <<sim_local, sim_result>>

(* scorer.py:151-154, the handler of the embedding path *)
SbertExcept == CallTfidf(TRUE)

(* a return of compute_relevance_tfidf, which its caller returns as is *)
TfidfReturn(x) ==
    /\ pc' = "sim_done"
    /\ sim_result' = Some(x)
    /\ sim_hist' = [sim_hist EXCEPT !.tfidf_ret = Some(x)]
    /\ UNCHANGED <<sim_local, sim_raised>>

(* scorer.py:101-102 *)
TfidfExcept == TfidfReturn(Num(0))

(* a return of the embedding path *)
SbertReturn(x) ==
    /\ pc' = "sim_done"
    /\ sim_result' = Some(x)
    /\ UNCHANGED <<sim_local, sim_raised, sim_hist>>

(* no similarity call is modelled *)
NoSimilarityCall ==
    /\ resume_text = ""
    /\ jd_text = ""
    /\ sbert_model = None
    /\ sbert_enabled = FALSE
    /\ stop_words = None
    /\ sim_local = NoSimLocal
    /\ sim_result = None
    /\ sim_raised = FALSE
    /\ sim_hist = NoSimHist

simArgs == <<resume_text, jd_text, sbert_model, sbert_enabled, stop_words>>

(* scorer.py:127-130 *)
SimCall ==
    /\ pc = "sim_call"
    /\ IF ~sbert_enabled \/ sbert_model = None
       THEN CallTfidf(FALSE)
       ELSE /\ pc' = "sbert_clean"
            /\ sim_hist' = [sim_hist EXCEPT !.sbert_attempts = @ + 1]
            /\ UNCHANGED <<sim_local, sim_result, sim_raised>>
    /\ UNCHANGED <<simArgs, skillVars, normVars, heurVars, parseVars>>

(* scorer.py:132-137 *)
SbertClean ==
    /\ pc = "sbert_clean"
    /\ \/ SbertExcept
       \/ LET resume_clean == clean_text(resume_text, stop_words)
              jd_clean == clean_text(jd_text, stop_words)
          IN  IF resume_clean = "" \/ jd_clean = ""
              THEN SbertReturn(Num(0))
              ELSE /\ pc' = "sbert_encode"
                   /\ sim_local' = [sim_local EXCEPT
                                       !.resume_clean = resume_clean,
                                       !.jd_clean = jd_clean]
                   /\ UNCHANGED <<sim_result, sim_raised, sim_hist>>
    /\ UNCHANGED <<simArgs, skillVars, normVars, heurVars, parseVars>>

(* scorer.py:140-141 *)
SbertEncode ==
    /\ pc = "sbert_encode"
    /\ \/ SbertExcept
       \/ /\ pc' = "sbert_cosine"
          /\ UNCHANGED <<sim_local, sim_result, sim_raised, sim_hist>>
    /\ UNCHANGED <<simArgs, skillVars, normVars, heurVars, parseVars>>

(* scorer.py:144 *)
SbertCosine ==
    /\ pc = "sbert_cosine"
    /\ \/ SbertExcept
       \/ \E x \in SbertCosineValues :
            /\ pc' = "sbert_clamp"
            /\ sim_local' = [sim_local EXCEPT !.similarity = Some(x)]
            /\ sim_hist' = [sim_hist EXCEPT !.nan_seen = @ \/ x.nan]
            /\ UNCHANGED <<sim_result, sim_raised>>
    /\ UNCHANGED <<simArgs, skillVars, normVars, heurVars, parseVars>>

(* scorer.py:147, max(0.0, min(1.0, float(similarity))) *)
SbertClampValue(x) == PyMax(Num(0), PyMin(Num(100), x))

(* scorer.py:147-149 *)
SbertClamp ==
    /\ pc = "sbert_clamp"
    /\ SbertReturn(SbertClampValue(sim_local.similarity[1]))
    /\ UNCHANGED <<simArgs, skillVars, normVars, heurVars, parseVars>>

(* scorer.py:82-90: fit_transform raises on an empty vocabulary; the       *)
(* matrix has one row per document                                         *)
TfidfFit ==
    /\ pc = "tfidf_fit"
    /\ LET docs == <<jd_text, resume_text>>
       IN  \/ TfidfExcept
           \/ /\ TfidfTokens(docs[1]) \o TfidfTokens(docs[2]) # << >>
              /\ IF Len(docs) < 2
                 THEN TfidfReturn(Num(0))
                 ELSE /\ pc' = "tfidf_cosine"
                      /\ UNCHANGED <<sim_local, sim_result, sim_raised, sim_hist>>
    /\ UNCHANGED <<simArgs, skillVars, normVars, heurVars, parseVars>>

(* scorer.py:96-99 *)
TfidfResult(sim) == IF sim.nan THEN Num(0) ELSE sim

(* scorer.py:93-99 *)
TfidfCosine ==
    /\ pc = "tfidf_cosine"
    /\ \/ TfidfExcept
       \/ \E sim \in TfidfCosineValues(jd_text, resume_text) :
            /\ pc' = "sim_done"
            /\ sim_result' = Some(TfidfResult(sim))
            /\ sim_hist' = [sim_hist EXCEPT !.tfidf_ret = Some(TfidfResult(sim)),
                                            !.nan_seen = @ \/ sim.nan]
            /\ UNCHANGED <<sim_local, sim_raised>>
    /\ UNCHANGED <<simArgs, skillVars, normVars, heurVars, parseVars>>

InitSim ==
    /\ pc = "sim_call"
    /\ resume_text \in SimTexts
    /\ jd_text \in SimTexts
    /\ sbert_model \in SbertModels
    /\ sbert_enabled \in BOOLEAN
    /\ stop_words \in StopWordSets
    /\ sim_local = NoSimLocal
    /\ sim_result = None
    /\ sim_raised = FALSE
    /\ sim_hist = NoSimHist
    /\ NoHeuristicsCall
    /\ NoParseCall
    /\ skill_count = 0
    /\ skills_score = None
    /\ skills_prev = None
    /\ NoDedupCall
    /\ heuristics_score = 0
    /\ relevance = None
    /\ norm_result = None
    /\ norm_prev = None

NextSim ==
    SimCall \/ SbertClean \/ SbertEncode \/ SbertCosine \/ SbertClamp
        \/ TfidfFit \/ TfidfCosine

SpecSim == InitSim /\ [][NextSim]_vars

(* C4, as claimed: the estimator never raises and what it returns is a     *)
(* number in [0.0, 1.0], whatever the texts and the state of the engine.   *)
SimilarityInUnitRange ==
    /\ ~sim_raised
    /\ pc = "sim_done" =>
          /\ ~sim_result[1].nan
          /\ sim_result[1].v >= 0
          /\ sim_result[1].v <= 100

(* C4, what does hold: the estimator never raises, never returns NaN or a  *)
(* negative value, and returns at most 1.0 on the embedding path.          *)
SimilarityNeverRaisesNorNegative ==
    /\ ~sim_raised
    /\ pc = "sim_done" =>
          /\ ~sim_result[1].nan
          /\ sim_result[1].v >= 0
          /\ sim_hist.tfidf_calls = 0 => sim_result[1].v <= 100

(* C5: a failure in the embedding path ends in the TF-IDF result being     *)
(* returned, not in an exception; TF-IDF runs at most once per call and    *)
(* the embedding path is entered at most once.                             *)
SingleFallback ==
    /\ sim_hist.tfidf_calls <= 1
    /\ sim_hist.sbert_attempts <= 1
    /\ ~sim_raised
    /\ sim_hist.failed => sim_hist.tfidf_calls = 1
    /\ (pc = "sim_done" /\ sim_hist.failed) =>
          /\ sim_hist.tfidf_ret # None
          /\ sim_result = sim_hist.tfidf_ret

(* C5 witness: the embedding path was entered once and failed, TF-IDF ran  *)
(* once and its 0.6 was returned.                                          *)
SingleFallbackWitness ==
    /\ pc = "sim_done"
    /\ sim_hist.failed
    /\ sim_hist.sbert_attempts = 1
    /\ sim_hist.tfidf_calls = 1
    /\ sim_result = Some(Num(60))

(* C6, as claimed: when a cosine similarity computed during the call was   *)
(* NaN, the call returns 0.0.                                              *)
NanReturnsZero ==
    (pc = "sim_done" /\ sim_hist.nan_seen) => sim_result = Some(Num(0))

(* C6, what does hold: NaN is never returned, and a NaN computed by the    *)
(* TF-IDF strategy returns 0.0.                                            *)
NanNeverReturned ==
    pc = "sim_done" =>
        /\ ~sim_result[1].nan
        /\ (sim_hist.nan_seen /\ sim_hist.tfidf_calls = 1) =>
              sim_result = Some(Num(0))

(***************************************************************************)
(* Calls of _score_skills: one call, then calls with more skills.          *)
(***************************************************************************)
InitSkills ==
    /\ pc = "skills_call"
    /\ skill_count \in 0..MaxSkillCount
    /\ skills_score = None
    /\ skills_prev = None
    /\ NoDedupCall
    /\ heuristics_score = 0
    /\ relevance = None
    /\ norm_result = None
    /\ norm_prev = None
    /\ NoSimilarityCall
    /\ NoHeuristicsCall
    /\ NoParseCall

ScoreSkills ==
    /\ pc = "skills_call"
    /\ skills_score' = Some(_score_skills(skill_count))
    /\ pc' = "skills_done"
    /\ UNCHANGED <<skill_count, skills_prev, dedupVars, requests, normVars,
                   simVars, heurVars, parseVars>>

ScoreMoreSkills ==
    /\ pc = "skills_done"
    /\ \E d \in 1..MaxSkillStep :
          /\ skill_count + d <= MaxSkillCount
          /\ skill_count' = skill_count + d
    /\ skills_prev' = Some([count |-> skill_count, score |-> skills_score[1]])
    /\ skills_score' = Some(_score_skills(skill_count'))
    /\ UNCHANGED <<pc, dedupVars, requests, normVars, simVars, heurVars,
                   parseVars>>

NextSkills == ScoreSkills \/ ScoreMoreSkills

SpecSkills == InitSkills /\ [][NextSkills]_vars

SkillsMonotone ==
    skills_prev # None =>
        /\ skills_prev[1].count <= skill_count
        /\ skills_prev[1].score <= skills_score[1]

(* C10 witness: 24 skills scored 9.7, then 25 skills scored 10.0.          *)
SkillsMonotoneWitness ==
    /\ skills_prev = Some([count |-> 24, score |-> 970])
    /\ skill_count = 25
    /\ skills_score = Some(1000)

(***************************************************************************)
(* Calls of normalize_score: one call, then calls with a raised heuristic  *)
(* score or a raised relevance.                                            *)
(***************************************************************************)
InitNorm ==
    /\ pc = "norm_call"
    /\ heuristics_score \in HeuristicScores
    /\ relevance \in Relevances
    /\ norm_result = None
    /\ norm_prev = None
    /\ skill_count = 0
    /\ skills_score = None
    /\ skills_prev = None
    /\ NoDedupCall
    /\ NoSimilarityCall
    /\ NoHeuristicsCall
    /\ NoParseCall

NormalizeScore ==
    /\ pc = "norm_call"
    /\ norm_result' = Some(normalize_score(heuristics_score, relevance))
    /\ pc' = "norm_done"
    /\ UNCHANGED <<heuristics_score, relevance, norm_prev, skillVars, simVars,
                   heurVars, parseVars>>

NormalizeRaised ==
    /\ pc = "norm_done"
    /\ relevance # None
    /\ \E dh \in 0..MaxRaise, dr \in 0..MaxRaise :
          /\ dh + dr > 0
          /\ heuristics_score + 10 * dh <= MaxHeuristic
          /\ relevance[1] + dr <= MaxRelevance
          /\ heuristics_score' = heuristics_score + 10 * dh
          /\ relevance' = Some(relevance[1] + dr)
    /\ norm_prev' = Some([h |-> heuristics_score, rel |-> relevance,
                          total |-> norm_result[1].total,
                          breakdown |-> norm_result[1].breakdown])
    /\ norm_result' = Some(normalize_score(heuristics_score', relevance'))
    /\ UNCHANGED <<pc, skillVars, simVars, heurVars, parseVars>>

NextNorm == NormalizeScore \/ NormalizeRaised

SpecNorm == InitNorm /\ [][NextNorm]_vars

(* C1: for every heuristic score in [0,50] and every relevance that is     *)
(* None or in [0,1], the final score is in [0,100] and at most 98.0.       *)
FinalScoreAtMost98 ==
    pc = "norm_done" =>
        /\ norm_result[1].total >= 0
        /\ norm_result[1].total <= 100 * 100
        /\ norm_result[1].total <= 9800

(* C1 witness: heuristic 50 with relevance 1.0 gives exactly 98.0.         *)
FinalScoreAtMost98Witness ==
    /\ pc = "norm_done"
    /\ heuristics_score = 5000
    /\ relevance = Some(100)
    /\ norm_result[1].total = 9800

(* C2, as claimed: a call whose heuristic score and relevance (0.0         *)
(* included) are both at least those of the call before returns a final    *)
(* score at least as large.                                                *)
FinalScoreMonotone ==
    norm_prev # None => norm_prev[1].total <= norm_result[1].total

(* C2, what does hold: the same with the earlier relevance above 0.0, that *)
(* is with both calls in with-JD mode.                                     *)
FinalScoreMonotoneWithJd ==
    (norm_prev # None /\ norm_prev[1].rel # Some(0)) =>
        norm_prev[1].total <= norm_result[1].total

MaxErrors == 4

HeurTexts ==
    {"",
     "PhD Computer Science from MIT",
     "work experience 2021, education: diploma, github",
     "Education: B.Tech CSE, IIT\nExperience: 6 months intern, built a REST api in python for 40 users. a@b.io github",
     "Jane Doe jane@x.io +1 555 123 4567 linkedin https://j.io/\nEducation: PhD computer science, MIT\nExperience: senior lead at Google, 5 years. Led, developed, designed, built, managed, created, improved, reduced 10% 20% 30% $5m 12 engineers\nProjects: project: project deployed live production 50 users github.com gitlab.com python javascript rust\nc r go ml s3 k6 k8s sql aws gcp git api jwt tdd bdd sso css php lua vue mui koa gin ec2"}

SectionMaps ==
    {<< >>,
     [education |-> None, experience |-> Some(""), skills |-> Some("python")],
     [education |-> Some("Master of Science, Stanford")],
     [experience |-> Some("Led a team of 4 engineers for 3 months at Stripe, 2020 - present")],
     [projects |-> Some("Project: chat app in React and Node, 200 stars")],
     [experience |-> Some("Intern for 0.5 months, 2021 - 2022")],
     [education |-> Some("BSc Mathematics"),
      experience |-> Some("Developed and launched 3 applications, 2 yrs"),
      projects |-> Some("Hackathon project, deployed on vercel https://p.vercel.app")]}

(* the parsing errors reported by the parsers, in the order reported *)
ErrorList(n) == [i \in 1..n |-> "error " \o ToString(i)]

InitHeur ==
    /\ pc = "heur_call"
    /\ heur_text \in HeurTexts
    /\ parsed_sections \in SectionMaps
    /\ parsing_errors \in {ErrorList(n) : n \in 0..MaxErrors}
    /\ heur_local = None
    /\ heur_result = None
    /\ skill_count = 0
    /\ skills_score = None
    /\ skills_prev = None
    /\ NoDedupCall
    /\ heuristics_score = 0
    /\ relevance = None
    /\ norm_result = None
    /\ norm_prev = None
    /\ NoSimilarityCall
    /\ NoParseCall

(* what one call leaves in the locals and returns *)
HeuristicsCall(errors) ==
    \E r \in {compute_heuristics(heur_text, parsed_sections, errors)} :
        /\ heur_local' = Some([edu_score |-> r.edu_score,
                                exp_score |-> r.exp_score,
                                skills_score |-> r.skills_score,
                                proj_score |-> r.proj_score,
                                contact_score |-> r.contact_score])
        /\ heur_result' = Some([score |-> r.score,
                                 feedback |-> r.feedback,
                                 breakdown |-> r.breakdown])

ComputeHeuristics ==
    /\ pc = "heur_call"
    /\ HeuristicsCall(parsing_errors)
    /\ pc' = "heur_done"
    /\ UNCHANGED <<heur_text, parsed_sections, parsing_errors,
                   skillVars, normVars, simVars, parseVars>>

ComputeWithOneMoreError ==
    /\ pc = "heur_done"
    /\ Len(parsing_errors) < MaxErrors
    /\ parsing_errors' = ErrorList(Len(parsing_errors) + 1)
    /\ HeuristicsCall(parsing_errors')
    /\ UNCHANGED <<pc, heur_text, parsed_sections, skillVars, normVars, simVars,
                   parseVars>>

NextHeur == ComputeHeuristics \/ ComputeWithOneMoreError

SpecHeur == InitHeur /\ [][NextHeur]_vars

(* C7: for any resume text, section mapping and list of n parsing errors,  *)
(* compute_heuristics returns a total in [0,50]; the penalty it applies is *)
(* min(10, 5n), subtracted once from the sum of the five section scores:   *)
(* it is 10 for every n >= 2, and the breakdown records it as              *)
(* parsingPenalty = -min(10, 5n).                                          *)
HeuristicTotalAndPenalty ==
    pc = "heur_done" =>
        LET r == heur_result[1]
            l == heur_local[1]
            n == Len(parsing_errors)
            sections == l.edu_score + l.exp_score + l.skills_score
                          + l.proj_score + l.contact_score
        IN  /\ r.score \in 0..5000
            /\ r.breakdown.parsingPenalty = -Min(1000, 500 * n)
            /\ n >= 2 => r.breakdown.parsingPenalty = -1000
            /\ r.score = Max(0, Min(5000, sections - Min(1000, 500 * n)))

(* three errors reported: the penalty is 10, not 15, and points are left *)
HeuristicTotalAndPenaltyWitness ==
    /\ pc = "heur_done"
    /\ Len(parsing_errors) = 3
    /\ heur_result[1].breakdown.parsingPenalty = -1000
    /\ heur_result[1].score > 0
    /\ heur_result[1].score < 5000

(* C8: each of the five section scorers returns a value in [0,10];         *)
(* _score_education and _score_experience return 0 when the section is     *)
(* absent and the word 'education' / 'experience' is not in the full text. *)
SectionScoresInRange ==
    pc = "heur_done" =>
        LET l == heur_local[1]
            full_text == Lower(heur_text)
        IN  /\ l.edu_score \in 0..1000
            /\ l.exp_score \in 0..1000
            /\ l.skills_score \in 0..1000
            /\ l.proj_score \in 0..1000
            /\ l.contact_score \in 0..1000
            /\ (SectionGet(parsed_sections, "education") = ""
                    /\ ~In("education", full_text)) => l.edu_score = 0
            /\ (SectionGet(parsed_sections, "experience") = ""
                    /\ ~In("experience", full_text)) => l.exp_score = 0

(* a resume that names a degree but has no education section and not the   *)
(* word 'education': education scores 0 while experience scores points     *)
SectionScoresInRangeWitness ==
    /\ pc = "heur_done"
    /\ In("phd", Lower(heur_text))
    /\ ~In("education", Lower(heur_text))
    /\ SectionGet(parsed_sections, "education") = ""
    /\ heur_local[1].edu_score = 0
    /\ heur_local[1].exp_score > 0

(* C11: a resume whose only content is "PhD Computer Science from MIT",    *)
(* with no education section detected, gets education sub-score 10.0       *)
(* (base 2 + doctorate 5 + relevant field 1.5 + top institution 1.0).      *)
PhdFromMitScoresTen ==
    (/\ pc = "heur_done"
     /\ heur_text = "PhD Computer Science from MIT"
     /\ SectionGet(parsed_sections, "education") = "")
        => heur_result[1].breakdown.education = 1000

(* what the code does for that resume: the lowercased text does not hold   *)
(* the word 'education', so _score_education returns 0.0; and no resume    *)
(* gets more than 9.5, the sum of the base and the three bonuses           *)
PhdFromMitScoresZero ==
    pc = "heur_done" =>
        /\ heur_result[1].breakdown.education <= 950
        /\ (heur_text = "PhD Computer Science from MIT"
                /\ SectionGet(parsed_sections, "education") = "")
               => heur_result[1].breakdown.education = 0

(* C14, as claimed: for a heuristic score in [0,50] and a relevance that   *)
(* is None or in [0,1], the breakdown of normalize_score records a         *)
(* 'heuristics' value in [0,50] and a 'relevance' value in [0,50].         *)
BreakdownComponentsAtMost50 ==
    pc = "norm_done" =>
        /\ norm_result[1].breakdown.heuristics \in 0..5000
        /\ norm_result[1].breakdown.relevance \in 0..5000

(* C14, what does hold: 'relevance' is in [0,50]; 'heuristics' is in       *)
(* [0,50] with a job description and is the doubled score, in [0,100],     *)
(* without one.                                                            *)
BreakdownHeuristicsDoubledWithoutJd ==
    pc = "norm_done" =>
        /\ norm_result[1].breakdown.relevance \in 0..5000
        /\ norm_result[1].breakdown.heuristics =
               IF IsNoJd(relevance) THEN 2 * heuristics_score ELSE heuristics_score

(* The message compute_heuristics appends for the contact section of a     *)
(* resume whose contact score is exactly 0 (the empty resume).             *)
ContactMessageAtZero == compute_heuristics("", << >>, << >>).feedback[5]

(* C15, as claimed: the message for a section scoring exactly 0 is not the *)
(* message for a section scoring above 0 and below 5; here for the contact *)
(* section.                                                                *)
MissingDiffersFromLowQuality ==
    (/\ pc = "heur_done"
     /\ heur_local[1].contact_score > 0
     /\ heur_local[1].contact_score < 500)
        => \A i \in 1..Len(heur_result[1].feedback) :
               heur_result[1].feedback[i] # ContactMessageAtZero

(* C15, what does hold: a section scoring below 5 gets exactly one message *)
(* and a section scoring 5 or more gets none; the number of section        *)
(* messages is the number of sections scoring below 5.                     *)
OneMessagePerLowSection ==
    pc = "heur_done" =>
        LET low == {k \in {"edu_score", "exp_score", "skills_score",
                           "proj_score", "contact_score"} :
                        heur_local[1][k] < 500}
        IN  Len(heur_result[1].feedback) =
                Cardinality(low) + (IF Len(parsing_errors) > 0 THEN 1 ELSE 0)

(***************************************************************************)
(* scorer.py: generate_white_box_feedback.  A dict is a record; the order  *)
(* of its keys is the order in which the code inserts them.                *)
(***************************************************************************)
(* repr() of a float that has at most two decimals, v in hundredths *)
FloatText(v) ==
    LET a == IF v < 0 THEN 0 - v ELSE v
        f == a % 100
    IN  (IF v < 0 THEN "-" ELSE "") \o ToString(a \div 100) \o "."
          \o (IF f % 10 = 0 THEN ToString(f \div 10)
              ELSE IF f < 10 THEN "0" \o ToString(f)
              ELSE ToString(f))

(* scorer.py:193-200 and 628-649, the keys in insertion order *)
BreakdownKeyOrder ==
    <<"education", "experience", "skills", "projects", "contact",
      "parsingPenalty", "heuristics", "relevance", "scalingFactor">>

DictMergeLeftOnly(a, b) == a

(* {**a, **b} *)
DictMerge(a, b) ==
    [k \in (DOMAIN a) \cup (DOMAIN b) |-> IF k \in DOMAIN b THEN b[k] ELSE a[k]]

RelevanceLinesEveryTier(rel, method) ==
    <<"Relevance (" \o method \o ") = " \o FloatText(rel)>>
        \o (IF rel < 30
            THEN <<"Low semantic match to job description - consider adding more relevant keywords and skills">>
            ELSE << >>)
        \o (IF rel < 60
            THEN <<"Moderate semantic match to job description - good alignment with some improvement opportunities">>
            ELSE <<"Excellent semantic match to job description - strong alignment with requirements">>)

(* scorer.py:683-692, the relevance line and its interpretation *)
RelevanceLines(rel, method) ==
    <<"Relevance (" \o method \o ") = " \o FloatText(rel),
      IF rel < 30
      THEN "Low semantic match to job description - consider adding more relevant keywords and skills"
      ELSE IF rel < 60
      THEN "Moderate semantic match to job description - good alignment with some improvement opportunities"
      ELSE "Excellent semantic match to job description - strong alignment with requirements">>

(* rel is the relevance in hundredths (Optional); parsingPenalty is an int *)
generate_white_box_feedback(feedback_items, rel, sections, contact, breakdown_components, enabled) ==
    LET title(sec) ==
            Ch(UpperAlphabet, CHOOSE i \in 1..26 : Ch(LowerAlphabet, i) = Ch(sec, 1))
                \o SubSeq(sec, 2, Len(sec))
        section_line(sec) ==
            IF sec \in DOMAIN sections /\ Truthy(sections[sec])
            THEN title(sec) \o " section detected"
            ELSE title(sec) \o " section NOT detected - consider adding this section"
        value_text(k) ==
            IF k = "parsingPenalty"
            THEN ToString(breakdown_components[k] \div 100)
            ELSE FloatText(breakdown_components[k])
        items == SelectSeq(BreakdownKeyOrder,
                           LAMBDA k : k \in DOMAIN breakdown_components)
    IN  feedback_items
          \o (IF rel # None
              THEN RelevanceLines(rel[1], IF enabled THEN "SBERT" ELSE "TF-IDF")
              ELSE << >>)
          \o <<section_line("education"), section_line("experience"),
               section_line("skills")>>
          \o <<IF Truthy(contact.email)
               THEN "Email found: " \o contact.email[1]
               ELSE "Email not found - add professional email address">>
          \o <<IF Truthy(contact.phone)
               THEN "Phone found: " \o contact.phone[1]
               ELSE "Phone not found - add contact phone number">>
          \o <<"Score breakdown: "
                 \o JoinFrom(", ", [i \in 1..Len(items) |->
                                       items[i] \o ":" \o value_text(items[i])], 1)>>
          \o (IF enabled /\ rel # None /\ rel[1] < 40
              THEN <<"Recommendation: Use more specific technical terms and industry keywords from the job description",
                     "Recommendation: Align your experience descriptions with the job requirements more closely">>
              ELSE << >>)

(***************************************************************************)
(* parser.py: safe_extract_text.  kind is what the filename ends with,     *)
(* content the text the parser of that kind extracts, None when it raises. *)
(***************************************************************************)
safe_extract_text_keeps_text(kind, content) ==
    [text |-> IF content = None THEN "" ELSE content[1],
     errors |-> IF kind \in {"pdf", "docx", "doc"} /\ content # None
                THEN << >> ELSE <<"Unsupported file extension">>]

safe_extract_text(kind, content) ==
    IF kind \in {"pdf", "docx", "doc"}
    THEN IF content = None
         THEN [text |-> "",
               errors |-> <<(IF kind = "pdf" THEN "PDF" ELSE "DOCX")
                             \o " parsing error: corrupt file">>]
         ELSE [text |-> content[1], errors |-> << >>]
    ELSE [text |-> "", errors |-> <<"Unsupported file extension">>]

(***************************************************************************)
(* routes/score.py: parse_resume, the handler of POST /parse.  One request *)
(* runs through the steps of the try block; the relevance step is the      *)
(* call of ats_similarity_score_sbert modelled above.                      *)
(***************************************************************************)
InitParse ==
    /\ pc = "parse_call"
    /\ upload \in
          {Some([kind |-> "pdf", content |-> Some(t)]) : t \in HeurTexts}
              \cup {Some([kind |-> "pdf", content |-> None]),
                    Some([kind |-> "docx", content |-> None]),
                    Some([kind |-> "docx",
                          content |-> Some("Skills\nPython, React; go | c\n\nEDUCATION\nB.Sc physics")]),
                    Some([kind |-> "txt",
                          content |-> Some("PhD Computer Science from MIT")])}
    /\ job_description \in {None, Some(""), Some("python developer"),
                            Some("PhD Computer Science from MIT")}
    /\ sbert_model \in SbertModels
    /\ sbert_enabled \in BOOLEAN
    /\ stop_words \in StopWordSets
    /\ resume_text = ""
    /\ jd_text = ""
    /\ sim_local = NoSimLocal
    /\ sim_result = None
    /\ sim_raised = FALSE
    /\ sim_hist = NoSimHist
    /\ NoHeuristicsCall
    /\ parsed_skills = << >>
    /\ response = None
    /\ parse_raised = FALSE
    /\ pass_prev = None
    /\ requests = << >>
    /\ skill_count = 0
    /\ skills_score = None
    /\ skills_prev = None
    /\ NoDedupCall
    /\ heuristics_score = 0
    /\ relevance = None
    /\ norm_result = None
    /\ norm_prev = None

(* score.py:104-107, steps 1 and 2 *)
ParseExtract ==
    /\ pc = "parse_call"
    /\ \E r \in {safe_extract_text(upload[1].kind, upload[1].content)} :
          /\ heur_text' = r.text
          /\ parsing_errors' = r.errors
    /\ pc' = "parse_sections"
    /\ UNCHANGED <<parsed_sections, heur_local, heur_result, skillVars, normVars,
                   simVars, parseVars>>

(* score.py:110-132, the mapping `parsed` of step 3 *)
ParsedOf(raw_text) ==
    [skills |-> extract_skills_from_section(
                    find_section(raw_text,
                                 {"skills", "technical skills", "skills & technologies"},
                                 "skills")),
     education |-> find_section(raw_text,
                                {"education", "academic", "qualifications"},
                                "education"),
     experience |-> find_section(raw_text,
                                 {"experience", "work experience",
                                  "professional experience", "employment"},
                                 "experience")]

(* score.py:110-132, step 3 *)
ParseSections ==
    /\ pc = "parse_sections"
    /\ parsed_sections' = ParsedOf(heur_text)
    /\ parsed_skills' = extract_skills_from_resume(heur_text)
    /\ pc' = "parse_heur"
    /\ UNCHANGED <<heur_text, parsing_errors, heur_local, heur_result, skillVars,
                   normVars, simVars, job_description, upload, response,
                   parse_raised, pass_prev>>

(* score.py:135-150, step 4 and the test of step 5 *)
ParseHeuristics ==
    /\ pc = "parse_heur"
    /\ HeuristicsCall(parsing_errors)
    /\ IF Truthy(job_description)
       THEN /\ pc' = "sim_call"
            /\ resume_text' = heur_text
            /\ jd_text' = job_description[1]
       ELSE /\ pc' = "parse_norm"
            /\ UNCHANGED <<resume_text, jd_text>>
    /\ UNCHANGED <<heur_text, parsed_sections, parsing_errors, skillVars, normVars,
                   sbert_model, sbert_enabled, stop_words, sim_local, sim_result,
                   sim_raised, sim_hist, parseVars>>

(* score.py:153, step 6; relevance is None unless step 5 ran; a value just *)
(* above 1.0 is 1.0 to the second decimal                                  *)
ParseNormalize ==
    /\ pc \in {"parse_norm", "sim_done"}
    /\ ~sim_raised
    /\ heuristics_score' = heur_result[1].score
    /\ relevance' = IF pc = "sim_done"
                    THEN Some(Min(100, sim_result[1].v))
                    ELSE None
    /\ norm_result' = Some(normalize_score(heuristics_score', relevance'))
    /\ pc' = "parse_feedback"
    /\ UNCHANGED <<norm_prev, skillVars, simVars, heurVars, parseVars>>

FeedbackItemsAliased(feedback_items, fb) == fb

(* scorer.py:678-679: fb is a new list that feedback_items is copied into; *)
(* the list passed in is what it was when fb is returned                   *)
FeedbackItemsAfter(feedback_items, fb) == feedback_items

(* score.py:156-184, the result of steps 7 to 9; merged is                 *)
(* {**heur_breakdown, **norm_breakdown}                                    *)
ParseResult(raw_text, all_skills, errors, parsed, heur_feedback, final_score, merged, rel, enabled) ==
    [rawText |-> raw_text,
     parsedSkills |-> all_skills,
     parsingErrors |-> errors,
     atsScore |-> final_score,
     breakdown |-> merged,
     feedback |->
         generate_white_box_feedback(
             heur_feedback,
             IF rel # None THEN rel ELSE Some(0),
             parsed,
             extract_contact_info(raw_text),
             merged,
             enabled),
     contact |-> extract_contact_info(raw_text),
     similarity_method |-> IF enabled THEN "SBERT" ELSE "TF-IDF",
     model_info |->
         [sbert_enabled |-> enabled,
          model_name |-> IF enabled THEN "all-MiniLM-L6-v2" ELSE "TF-IDF"]]

(* score.py:156-183, steps 7 to 9; heur_feedback is the list in the        *)
(* result of step 4                                                        *)
ParseFeedback ==
    /\ pc = "parse_feedback"
    /\ \E merged \in {DictMerge(heur_result[1].breakdown, norm_result[1].breakdown)} :
          response' =
              Some(ParseResult(heur_text, parsed_skills, parsing_errors,
                               parsed_sections, heur_result[1].feedback,
                               norm_result[1].total, merged, relevance,
                               sbert_enabled))
    /\ heur_result' =
          Some([heur_result[1] EXCEPT
                   !.feedback = FeedbackItemsAfter(@, response'[1].feedback)])
    /\ pc' = "parse_done"
    /\ UNCHANGED <<skillVars, normVars, simVars, heur_text, parsed_sections,
                   parsing_errors, heur_local, job_description, upload,
                   parsed_skills, parse_raised, pass_prev>>

ParseExceptPropagate ==
    /\ pc \in {"parse_call", "parse_sections", "parse_heur", "parse_norm",
               "sim_done", "parse_feedback"}
    /\ parse_raised' = TRUE
    /\ pc' = "parse_done"
    /\ UNCHANGED <<skillVars, normVars, simVars, heurVars, job_description,
                   upload, parsed_skills, response, pass_prev>>

(* score.py:185-192: a step of the try block raises, the read of the      *)
(* upload (score.py:104) or a call of steps 2 to 9, and the except clause  *)
(* returns the error record                                                *)
ParseExcept ==
    /\ pc \in {"parse_call", "parse_sections", "parse_heur", "parse_norm",
               "sim_done", "parse_feedback"}
    /\ response' = Some([error |-> "Failed to parse", detail |-> "step failed"])
    /\ pc' = "parse_done"
    /\ UNCHANGED <<skillVars, normVars, simVars, heurVars, job_description,
                   upload, parsed_skills, parse_raised, pass_prev>>

NextParse ==
    \/ ParseExtract \/ ParseSections \/ ParseHeuristics
    \/ SimCall \/ SbertClean \/ SbertEncode \/ SbertCosine \/ SbertClamp
    \/ TfidfFit \/ TfidfCosine
    \/ ParseNormalize \/ ParseFeedback \/ ParseExcept

SpecParse == InitParse /\ [][NextParse]_vars

(* a /parse request that ended with a scoring result, not the error record *)
ParseSucceeded == pc = "parse_done" /\ ~parse_raised /\ "error" \notin DOMAIN response[1]

(* C12: for empty resume text, no sections, no parsing errors and no job   *)
(* description the final score is 0.0 and the feedback of                  *)
(* compute_heuristics is one 'missing' message for each of the five        *)
(* sections.                                                               *)
EmptyResumeScoresZero ==
    (/\ ParseSucceeded
     /\ heur_text = ""
     /\ parsing_errors = << >>
     /\ ~Truthy(job_description))
        => /\ response[1].atsScore = 0
           /\ parsed_sections = [skills |-> << >>, education |-> None,
                                 experience |-> None]
           /\ heur_result[1].feedback =
                  <<"Missing or undetected Education section",
                    "Missing or undetected Experience section",
                    "Only 0 technical skills detected - add more relevant technologies (target: 20+)",
                    "Missing Projects section - showcase your work with technical details",
                    "Contact info incomplete - add email, phone, and LinkedIn/GitHub">>
           /\ SubSeq(response[1].feedback, 1, 5) = heur_result[1].feedback

(* C12 witness: an empty PDF scored without a job description.             *)
EmptyResumeScoresZeroWitness ==
    /\ ParseSucceeded
    /\ upload = Some([kind |-> "pdf", content |-> Some("")])
    /\ job_description = None
    /\ parsing_errors = << >>
    /\ response[1].atsScore = 0
    /\ Len(heur_result[1].feedback) = 5

(* C13: in every successful scoring pass, with or without a job            *)
(* description, the merged breakdown has exactly the nine keys education,  *)
(* experience, skills, projects, contact, parsingPenalty, heuristics,      *)
(* relevance, scalingFactor.                                               *)
BreakdownHasNineKeys ==
    ParseSucceeded =>
        DOMAIN response[1].breakdown =
            {"education", "experience", "skills", "projects", "contact",
             "parsingPenalty", "heuristics", "relevance", "scalingFactor"}

(* C13 witness: a pass with a job description and a parsing penalty, whose *)
(* breakdown has the keys of both breakdowns.                              *)
BreakdownHasNineKeysWitness ==
    /\ ParseSucceeded
    /\ Truthy(job_description)
    /\ response[1].breakdown.parsingPenalty = -500
    /\ response[1].breakdown.scalingFactor = 98
    /\ Cardinality(DOMAIN response[1].breakdown) = 9

MethodNamesStrategyUsed ==
    (ParseSucceeded /\ Truthy(job_description)) =>
        LET method == IF sim_hist.tfidf_calls = 0 THEN "SBERT" ELSE "TF-IDF"
        IN  /\ response[1].similarity_method = method
            /\ \E i \in 1..Len(response[1].feedback) :
                  StartsAt(response[1].feedback[i], 1,
                           "Relevance (" \o method \o ") = ")

(* C17, what does hold: the method named is decided by the configuration   *)
(* flag SBERT_ENABLED alone, whichever strategy ran.                       *)
MethodNamesEnabledFlag ==
    ParseSucceeded =>
        LET method == IF sbert_enabled THEN "SBERT" ELSE "TF-IDF"
        IN  /\ response[1].similarity_method = method
            /\ \E i \in 1..Len(response[1].feedback) :
                  StartsAt(response[1].feedback[i], 1,
                           "Relevance (" \o method \o ") = ")

(* C18, as claimed: the two 'Recommendation:' lines are in the feedback    *)
(* only when the embedding strategy computed the relevance and it is       *)
(* below 0.4: never without a job description, never when TF-IDF produced  *)
(* the relevance, never with relevance >= 0.4.                             *)
RecommendationsOnlyFromEmbedding ==
    (/\ ParseSucceeded
     /\ \E i \in 1..Len(response[1].feedback) :
           StartsAt(response[1].feedback[i], 1, "Recommendation:"))
        => /\ Truthy(job_description)
           /\ sim_hist.tfidf_calls = 0
           /\ sim_result[1].v < 40

(* C18, what does hold: the recommendations are two or none, and they are  *)
(* there exactly when SBERT_ENABLED is set and the relevance passed on,     *)
(* 0.0 without a job description, is below 0.4.                            *)
RecommendationsFollowEnabledFlag ==
    ParseSucceeded =>
        LET recs == {i \in 1..Len(response[1].feedback) :
                        StartsAt(response[1].feedback[i], 1, "Recommendation:")}
            rel == IF relevance = None THEN 0 ELSE relevance[1]
        IN  Cardinality(recs) = IF sbert_enabled /\ rel < 40 THEN 2 ELSE 0

(***************************************************************************)
(* Scoring passes over the same inputs.  KNOWN_SKILLS is a Python set of   *)
(* strings: the order in which it is iterated differs from one process to  *)
(* the next, so each pass meets the matching skills in an order of its     *)
(* own.  A pass is compute_heuristics, normalize_score and                 *)
(* generate_white_box_feedback; the relevance is the one the estimator     *)
(* gave for these inputs.                                                  *)
(***************************************************************************)
MaxRotation == 1

(* orders in which a pass may meet the set S: IterationOrder rotated by up *)
(* to MaxRotation places, and each of these reversed                       *)
IterationOrders(S) ==
    LET base == IterationOrder(S)
        n == Len(base)
        rotated == {[i \in 1..n |-> base[((i + r - 1) % n) + 1]] :
                       r \in 0..Min(MaxRotation, n - 1)}
    IN  IF n = 0 THEN {<< >>}
        ELSE rotated \cup {[i \in 1..n |-> o[n + 1 - i]] : o \in rotated}

InitDet ==
    /\ pc = "pass_call"
    /\ heur_text \in HeurTexts
    /\ parsed_sections \in
          {<< >>,
           [education |-> Some("BSc Mathematics"),
            experience |-> Some("Developed and launched 3 applications, 2 yrs"),
            skills |-> <<"Python">>]}
    /\ parsing_errors = << >>
    /\ relevance \in {None, Some(35)}
    /\ sbert_enabled \in BOOLEAN
    /\ heur_local = None
    /\ heur_result = None
    /\ resume_text = ""
    /\ jd_text = ""
    /\ sbert_model = None
    /\ stop_words = None
    /\ sim_local = NoSimLocal
    /\ sim_result = None
    /\ sim_raised = FALSE
    /\ sim_hist = NoSimHist
    /\ NoParseCall
    /\ skill_count = 0
    /\ skills_score = None
    /\ skills_prev = None
    /\ NoDedupCall
    /\ heuristics_score = 0
    /\ norm_result = None
    /\ norm_prev = None

(* one pass, the matching skills met in one of the orders; prev is what    *)
(* the pass before returned                                                *)
ScoringPass(prev) ==
    /\ \E text_lower \in {Lower(heur_text)} :
       \E bounds \in {WordBoundaries(text_lower)} :
       \E known \in IterationOrders(MatchingSkills(text_lower, bounds)) :
       \E skills \in {IF heur_text = "" THEN << >>
                      ELSE ExtractInOrder(heur_text, text_lower, bounds, known)} :
       \E h \in {SectionScoresWith(skills, heur_text, text_lower,
                                   parsed_sections, parsing_errors)} :
       \E n \in {normalize_score(h.score, relevance)} :
       \E merged \in {DictMerge(h.breakdown, n.breakdown)} :
          response' =
              Some([parsedSkills |-> skills,
                    atsScore |-> n.total,
                    breakdown |-> merged,
                    feedback |->
                        generate_white_box_feedback(
                            h.feedback,
                            IF relevance # None THEN relevance ELSE Some(0),
                            parsed_sections,
                            extract_contact_info(heur_text),
                            merged,
                            sbert_enabled)])
    /\ pass_prev' = prev
    /\ UNCHANGED <<skillVars, normVars, simVars, heurVars, job_description,
                   upload, parsed_skills, parse_raised>>

FirstPass ==
    /\ pc = "pass_call"
    /\ ScoringPass(None)
    /\ pc' = "pass_done"

SecondPass ==
    /\ pc = "pass_done"
    /\ ScoringPass(response)
    /\ pc' = "pass_again"

NextDet == FirstPass \/ SecondPass

SpecDet == InitDet /\ [][NextDet]_vars

(* C19: two scoring passes over identical inputs (resume text, section     *)
(* mapping, parsing errors, relevance of the job description, engine       *)
(* configuration) return the identical final score, breakdown and feedback *)
(* list, whatever order KNOWN_SKILLS is iterated in by each pass.          *)
ScoringDeterministic ==
    pass_prev # None =>
        /\ response[1].atsScore = pass_prev[1].atsScore
        /\ response[1].breakdown = pass_prev[1].breakdown
        /\ response[1].feedback = pass_prev[1].feedback

(* C19 witness: two passes that met the skills in different orders, so     *)
(* that the extracted lists differ, and returned the same score, breakdown *)
(* and feedback, with several skills counted.                              *)
ScoringDeterministicWitness ==
    /\ pass_prev # None
    /\ response[1].parsedSkills # pass_prev[1].parsedSkills
    /\ Len(response[1].parsedSkills) >= 3
    /\ response[1].atsScore = pass_prev[1].atsScore
    /\ response[1].feedback = pass_prev[1].feedback

(***************************************************************************)
(* The scoring core called directly (the calls of SpecHeur) and through    *)
(* the /parse handler (the requests of SpecParse).                         *)
(***************************************************************************)
SpecCore == (InitHeur \/ InitParse) /\ [][NextHeur \/ NextParse]_vars

(* C20: a section that is missing from the mapping, mapped to None or      *)
(* mapped to "" is absent to compute_heuristics: the call returns what it  *)
(* returns with that section mapped to the empty string; and no exception  *)
(* raised inside the try block of /parse reaches its caller, which gets    *)
(* the error record instead.                                               *)
AbsentSectionsAndNoEscape ==
    /\ pc \in {"heur_done", "parse_norm", "sim_call"} =>
          LET present == [k \in {"education", "experience", "projects"} |->
                             IF k \in DOMAIN parsed_sections /\ parsed_sections[k] # None
                             THEN parsed_sections[k]
                             ELSE Some("")]
              same == compute_heuristics(heur_text, present, parsing_errors)
          IN  heur_result[1] = [score |-> same.score,
                                feedback |-> same.feedback,
                                breakdown |-> same.breakdown]
    /\ ~parse_raised
    /\ ~sim_raised
    /\ pc = "parse_done" =>
          /\ response # None
          /\ \/ DOMAIN response[1] = {"error", "detail"}
             \/ /\ "error" \notin DOMAIN response[1]
                /\ "atsScore" \in DOMAIN response[1]

(* C20 witness: in a /parse request compute_heuristics returned a score    *)
(* above 0 for a mapping with education mapped to None and projects        *)
(* missing, then a later step raised and the request ended with the error  *)
(* record.                                                                 *)
AbsentSectionsAndNoEscapeWitness ==
    /\ pc = "parse_done"
    /\ heur_result # None
    /\ heur_result[1].score > 0
    /\ parsed_sections.education = None
    /\ "projects" \notin DOMAIN parsed_sections
    /\ norm_result # None
    /\ response = Some([error |-> "Failed to parse", detail |-> "step failed"])

(***************************************************************************)
(* The relevance curve of normalize_score.                                 *)
(***************************************************************************)

ComponentGain ==
    norm_result[1].breakdown.relevance - norm_prev[1].breakdown.relevance

RaisedByOneFrom(lo, hi) ==
    /\ norm_prev # None
    /\ norm_prev[1].rel[1] >= lo
    /\ relevance[1] <= hi
    /\ relevance[1] = norm_prev[1].rel[1] + 1

(* C24, as claimed: the relevance curve has diminishing returns: a raise   *)
(* of the relevance by 0.01 inside the top segment (r >= 0.6) gains no     *)
(* more relevance component than the same raise inside the middle segment  *)
(* (0.3 <= r < 0.6) gains.                                                 *)
RelevanceDiminishingReturns ==
    RaisedByOneFrom(60, 100) =>
        ComponentGain <= relevance_component(31) - relevance_component(30)

(* C24, what does hold: the gain per 0.01 of relevance grows from segment  *)
(* to segment: 0.35 below 0.3, 0.45 in the middle and 0.65 at the top.     *)
RelevanceIncreasingReturns ==
    /\ RaisedByOneFrom(1, 29) => ComponentGain = 35
    /\ RaisedByOneFrom(30, 59) => ComponentGain = 45
    /\ RaisedByOneFrom(60, 100) => ComponentGain = 65

(***************************************************************************)
(* The total of compute_heuristics against its breakdown.                  *)
(***************************************************************************)

(* the five recorded sub-scores plus the recorded parsingPenalty *)
BreakdownSum(breakdown) ==
    breakdown.education + breakdown.experience + breakdown.skills
        + breakdown.projects + breakdown.contact + breakdown.parsingPenalty

(* C29: the heuristic total returned by compute_heuristics equals the      *)
(* clamp to [0,50] of the sum of the five breakdown sub-scores plus the    *)
(* recorded parsingPenalty, which is never positive; the total is 0        *)
(* exactly when that sum is at most 0.                                     *)
TotalIsClampedBreakdownSum ==
    pc = "heur_done" =>
        LET r == heur_result[1]
            sum == BreakdownSum(r.breakdown)
        IN  /\ r.breakdown.parsingPenalty <= 0
            /\ r.score = (IF sum < 0 THEN 0 ELSE IF sum > 5000 THEN 5000
                          ELSE sum)
            /\ r.score = 0 <=> sum <= 0

(* C29 witness: a resume that scores no point in any section, read with a  *)
(* parsing error: the sum is -5 and the total 0.                           *)
TotalIsClampedBreakdownSumWitness ==
    /\ pc = "heur_done"
    /\ Len(parsing_errors) = 1
    /\ BreakdownSum(heur_result[1].breakdown) = -500
    /\ heur_result[1].score = 0

(***************************************************************************)
(* The parsing message of compute_heuristics.                              *)
(***************************************************************************)

IsParsingMessage(item) == StartsAt(item, 1, "Parsing issues detected: ")

(* index of the first occurrence of k in s, 0 when k is not in s *)
FirstIndex(k, s) ==
    IF In(k, s) THEN MinOf({i \in 1..Len(s) : StartsAt(s, i, k)}) ELSE 0

(* C26: with a non-empty list of n parsing errors compute_heuristics       *)
(* appends exactly one parsing message, as the last feedback item; it      *)
(* contains the first min(3, n) error strings in their original order and  *)
(* none of the later ones.  With an empty list no parsing message is       *)
(* appended and parsingPenalty stays 0.                                    *)
ParsingMessageFirstThree ==
    pc = "heur_done" =>
        LET fb == heur_result[1].feedback
            n == Len(parsing_errors)
            messages == {i \in 1..Len(fb) : IsParsingMessage(fb[i])}
            shown == IF n < 3 THEN n ELSE 3
            last == fb[Len(fb)]
        IN  IF n = 0
            THEN /\ messages = {}
                 /\ heur_result[1].breakdown.parsingPenalty = 0
            ELSE /\ messages = {Len(fb)}
                 /\ \A i \in 1..shown : In(parsing_errors[i], last)
                 /\ \A i \in 1..(shown - 1) :
                        FirstIndex(parsing_errors[i], last)
                            < FirstIndex(parsing_errors[i + 1], last)
                 /\ \A i \in (shown + 1)..n : ~In(parsing_errors[i], last)

(* C26 witness: four errors were reported and the message, after the       *)
(* feedback of the section scorers, names the first three.                 *)
ParsingMessageFirstThreeWitness ==
    /\ pc = "heur_done"
    /\ Len(parsing_errors) = 4
    /\ Len(heur_result[1].feedback) > 1
    /\ heur_result[1].feedback[Len(heur_result[1].feedback)] =
           "Parsing issues detected: error 1; error 2; error 3"

(***************************************************************************)
(* Parsing errors in the /parse pipeline.                                  *)
(***************************************************************************)

(* C30: safe_extract_text returns at most one error message for a file,    *)
(* and the empty text whenever it returns one; so every /parse response    *)
(* that reports a parsing error has parsingPenalty -5, never -10, the five *)
(* section sub-scores 0 and atsScore 0.0, with or without a job            *)
(* description.                                                            *)
ParsingErrorScoresZero ==
    /\ pc \notin {"parse_call", "pass_call"} =>
          /\ Len(parsing_errors) <= 1
          /\ parsing_errors # << >> => heur_text = ""
    /\ (ParseSucceeded /\ response[1].parsingErrors # << >>) =>
          /\ response[1].rawText = ""
          /\ response[1].breakdown.parsingPenalty = -500
          /\ response[1].breakdown.education = 0
          /\ response[1].breakdown.experience = 0
          /\ response[1].breakdown.skills = 0
          /\ response[1].breakdown.projects = 0
          /\ response[1].breakdown.contact = 0
          /\ response[1].atsScore = 0

(* C30 witness: a PDF that pdfminer cannot read, scored against a job      *)
(* description: one error, penalty -5, score 0.0.                          *)
ParsingErrorScoresZeroWitness ==
    /\ ParseSucceeded
    /\ upload = Some([kind |-> "pdf", content |-> None])
    /\ job_description = Some("python developer")
    /\ response[1].parsingErrors = <<"PDF parsing error: corrupt file">>
    /\ response[1].breakdown.parsingPenalty = -500
    /\ response[1].atsScore = 0

(***************************************************************************)
(* The order of the steps of the /parse pipeline.                          *)
(***************************************************************************)

(* the call of ats_similarity_score_sbert has been made *)
EstimatorInvoked ==
    \/ pc \in {"sbert_clean", "sbert_encode", "sbert_cosine", "sbert_clamp",
               "tfidf_fit", "tfidf_cosine", "sim_done"}
    \/ sim_result # None
    \/ sim_raised

JobDescriptionSupplied == job_description \notin {None, Some("")}

ExperienceText ==
    Lower(SectionGet(parsed_sections, "experience") \o " " \o Lower(heur_text))

ExperienceScored ==
    /\ pc = "heur_done"
    /\ \/ SectionGet(parsed_sections, "experience") # ""
       \/ In("experience", Lower(heur_text))

(* an explicit duration, a number before years, yrs, months or mos, is in  *)
(* the text                                                                *)
ExplicitDurationFound ==
    FindAll("years", ExperienceText) # << >>
        \/ FindAll("months", ExperienceText) # << >>

(* the bonus of the tier of the total months *)
TierBonus ==
    IF total_months(ExperienceText) >= 600 THEN 400
    ELSE IF total_months(ExperienceText) >= 300 THEN 300
    ELSE IF total_months(ExperienceText) >= 100 THEN 200
    ELSE 0

ExperienceScoreWith(duration_points) ==
    Min(1000, 10 * RoundTo(duration_points
                             + ExperienceQualityPoints(ExperienceText), 10))

(* C25, as claimed: when an explicit duration is found in the text the     *)
(* tier bonus on the total months applies and the date-range heuristic     *)
(* adds nothing; the date-range heuristic is used only when no explicit    *)
(* duration is found.                                                      *)
ExplicitDurationExcludesDateRange ==
    ExperienceScored =>
        heur_local[1].exp_score =
            ExperienceScoreWith(IF ExplicitDurationFound THEN TierBonus
                                ELSE DateRangePoints(ExperienceText))

(* C25, what does hold: the date-range heuristic is skipped when the       *)
(* durations found add up to one month or more, and used otherwise, also   *)
(* next to an explicit duration below one month.                           *)
DateRangeUnlessOneMonth ==
    ExperienceScored =>
        heur_local[1].exp_score =
            ExperienceScoreWith(IF total_months(ExperienceText) >= 100
                                THEN TierBonus
                                ELSE DateRangePoints(ExperienceText))

(***************************************************************************)
(* Calls of deduplicate_skills: one call on a list of skills, then a call  *)
(* on the list it returned.                                                *)
(***************************************************************************)
MaxSkills == 4

SkillSamples == {"Python", " python ", "PYTHON", "Node  JS", "node js", "  "}

RECURSIVE SkillLists(_)
SkillLists(n) ==
    IF n = 0 THEN {<< >>}
    ELSE SkillLists(n - 1)
           \cup {Append(l, k) : l \in {m \in SkillLists(n - 1) : Len(m) = n - 1},
                                k \in SkillSamples}

InitDedup ==
    /\ pc = "dedup_call"
    /\ dedup_skills \in SkillLists(MaxSkills)
    /\ dedup_result = None
    /\ dedup_again = None
    /\ skill_count = 0
    /\ skills_score = None
    /\ skills_prev = None
    /\ heuristics_score = 0
    /\ relevance = None
    /\ norm_result = None
    /\ norm_prev = None
    /\ NoSimilarityCall
    /\ NoHeuristicsCall
    /\ NoParseCall

DeduplicateSkills ==
    /\ pc = "dedup_call"
    /\ dedup_result' = Some(deduplicate_skills(dedup_skills))
    /\ pc' = "dedup_done"
    /\ UNCHANGED <<dedup_skills, dedup_again, skill_count, skills_score,
                   skills_prev, requests, normVars, simVars, heurVars,
                   parseVars>>

DeduplicateAgain ==
    /\ pc = "dedup_done"
    /\ dedup_again' = Some(deduplicate_skills(dedup_result[1]))
    /\ pc' = "dedup_twice"
    /\ UNCHANGED <<dedup_skills, dedup_result, skill_count, skills_score,
                   skills_prev, requests, normVars, simVars, heurVars,
                   parseVars>>

NextDedup == DeduplicateSkills \/ DeduplicateAgain

SpecDedup == InitDedup /\ [][NextDedup]_vars

(* a is b with entries left out: every entry of a is found in b, in order  *)
RECURSIVE IsSubsequenceFrom(_, _, _, _)
IsSubsequenceFrom(a, i, b, j) ==
    IF i > Len(a) THEN TRUE
    ELSE IF j > Len(b) THEN FALSE
    ELSE IF a[i] = b[j] THEN IsSubsequenceFrom(a, i + 1, b, j + 1)
    ELSE IsSubsequenceFrom(a, i, b, j + 1)

(* lower case, outer whitespace dropped, inner whitespace runs one space   *)
Folded(skill) ==
    LET l == Lower(skill)
    IN  Join(Runs(l, CharsOf(l) \ Whitespace))

(* index of the first entry of the list that folds to n *)
FirstFolded(list, n) == MinOf({i \in 1..Len(list) : Folded(list[i]) = n})

(* C22: deduplicate_skills returns a subsequence of its input in which no  *)
(* two entries are equal after case-insensitive normalization; every       *)
(* distinct normalized non-empty skill of the input appears exactly once,  *)
(* with the casing and in the position order of its first occurrence; and  *)
(* deduplicating the output again changes nothing.                         *)
DedupKeepsFirstOccurrences ==
    pc \in {"dedup_done", "dedup_twice"} =>
        LET in == dedup_skills
            out == dedup_result[1]
            names == {Folded(in[i]) : i \in 1..Len(in)} \ {""}
        IN  /\ IsSubsequenceFrom(out, 1, in, 1)
            /\ \A i, j \in 1..Len(out) :
                   i # j => Folded(out[i]) # Folded(out[j])
            /\ \A n \in names :
                   /\ Cardinality({j \in 1..Len(out) : Folded(out[j]) = n}) = 1
                   /\ out[FirstFolded(out, n)] = in[FirstFolded(in, n)]
            /\ \A i, j \in 1..Len(out) :
                   i < j => FirstFolded(in, Folded(out[i]))
                              < FirstFolded(in, Folded(out[j]))
            /\ pc = "dedup_twice" => dedup_again[1] = out

(* C22 witness: three spellings of one skill around another skill and a    *)
(* blank entry; the first spelling of each is kept, and kept again.        *)
DedupKeepsFirstOccurrencesWitness ==
    /\ pc = "dedup_twice"
    /\ dedup_skills = <<" python ", "Node  JS", "  ", "PYTHON">>
    /\ dedup_result = Some(<<" python ", "Node  JS">>)
    /\ dedup_again = dedup_result

(***************************************************************************)
(* What the scoring functions leave of their arguments.                    *)
(***************************************************************************)

(* C28: compute_heuristics, normalize_score and                            *)
(* generate_white_box_feedback leave their inputs unchanged: the section   *)
(* mapping, the parsing-error list, the heuristic feedback list passed to  *)
(* the compiler, the contact record and the breakdown passed to the        *)
(* compiler are after the call what they were before it.                   *)
InputsUnchanged ==
    [][/\ pc = "parse_heur" =>
              /\ heur_text' = heur_text
              /\ parsed_sections' = parsed_sections
              /\ parsing_errors' = parsing_errors
       /\ pc \in {"parse_norm", "sim_done"} =>
              /\ heur_result' = heur_result
              /\ parsed_sections' = parsed_sections
              /\ parsing_errors' = parsing_errors
       /\ (pc = "parse_feedback" /\ "error" \notin DOMAIN response'[1]) =>
              /\ heur_result' = heur_result
              /\ norm_result' = norm_result
              /\ parsed_sections' = parsed_sections
              /\ parsing_errors' = parsing_errors
              /\ response'[1].parsingErrors = parsing_errors
              /\ response'[1].contact = extract_contact_info(heur_text)
              /\ response'[1].breakdown =
                     DictMerge(heur_result[1].breakdown,
                               norm_result[1].breakdown)]_vars

(* C28 witness: the compiler returned a longer list than the one it was    *)
(* given, which still ends with the parsing message of compute_heuristics. *)
InputsUnchangedWitness ==
    /\ ParseSucceeded
    /\ parsing_errors # << >>
    /\ Len(response[1].feedback) > Len(heur_result[1].feedback)
    /\ IsParsingMessage(heur_result[1].feedback[Len(heur_result[1].feedback)])
    /\ parsed_sections = [skills |-> << >>, education |-> None,
                          experience |-> None]

(***************************************************************************)
(* Two /parse requests in flight at once.  Each request has the locals of  *)
(* its own call of parse_resume (score.py:102-184) and of the functions it *)
(* calls; app.sbert_model, app.SBERT_ENABLED and app.STOP_WORDS are the    *)
(* one copy both read.  The steps of the two requests interleave freely.   *)
(***************************************************************************)

(* the locals of a request that has not started *)
RequestFrame(file, jd) ==
    [pc |-> "read",
     file |-> file,
     job_description |-> jd,
     raw_text |-> "",
     parsing_errors |-> << >>,
     parsed |-> << >>,
     all_skills |-> << >>,
     heur |-> None,
     relevance |-> None,
     norm |-> None,
     response |-> None]

FirstFrame(frames, i) == frames[1]

(* the locals a step of request i works on: those of its own call *)
OwnFrame(frames, i) == frames[i]

(* what ats_similarity_score_sbert may return (scorer.py:126-154): the     *)
(* TF-IDF value, 0.0 when TF-IDF fails, and on the embedding path 0.0 for  *)
(* an empty cleaned text, the clamped cosine, or the TF-IDF value after a  *)
(* failure                                                                 *)
SimilarityReturns(resume, jd, model, enabled, sw) ==
    LET tfidf == {Num(0)}
                   \cup (IF TfidfTokens(jd) \o TfidfTokens(resume) # << >>
                         THEN {TfidfResult(x) : x \in TfidfCosineValues(jd, resume)}
                         ELSE {})
    IN  IF ~enabled \/ model = None THEN tfidf
        ELSE tfidf
               \cup (IF clean_text(resume, sw) = "" \/ clean_text(jd, sw) = ""
                     THEN {Num(0)}
                     ELSE {SbertClampValue(x) : x \in SbertCosineValues})

(* the relevance handed to normalize_score: None without a job            *)
(* description, else a return of the estimator, in hundredths              *)
RelevancesOf(raw_text, jd) ==
    IF Truthy(jd)
    THEN {Some(Min(100, x.v)) :
             x \in SimilarityReturns(raw_text, jd[1], sbert_model,
                                     sbert_enabled, stop_words)}
    ELSE {None}

concRest ==
    <<pc, skill_count, skills_score, skills_prev, dedupVars, normVars, simVars,
      heurVars, parseVars>>

InitConc ==
    /\ pc = "serving"
    /\ \E f1 \in {[kind |-> "pdf",
                   content |-> Some("work experience 2021, education: diploma, github")],
                  [kind |-> "pdf", content |-> None]},
          f2 \in {[kind |-> "docx",
                   content |-> Some("Skills\nPython, React; go | c\n\nEDUCATION\nB.Sc physics")],
                  [kind |-> "txt", content |-> Some("PhD Computer Science from MIT")]},
          jd1 \in {Some("python developer")},
          jd2 \in {Some(""), Some("work experience with a diploma")} :
          requests = <<RequestFrame(f1, jd1), RequestFrame(f2, jd2)>>
    /\ sbert_model = Some("all-MiniLM-L6-v2")
    /\ sbert_enabled \in BOOLEAN
    /\ stop_words = Some({"the", "and", "with"})
    /\ resume_text = ""
    /\ jd_text = ""
    /\ sim_local = NoSimLocal
    /\ sim_result = None
    /\ sim_raised = FALSE
    /\ sim_hist = NoSimHist
    /\ NoHeuristicsCall
    /\ job_description = None
    /\ upload = None
    /\ parsed_skills = << >>
    /\ response = None
    /\ parse_raised = FALSE
    /\ pass_prev = None
    /\ skill_count = 0
    /\ skills_score = None
    /\ skills_prev = None
    /\ NoDedupCall
    /\ heuristics_score = 0
    /\ relevance = None
    /\ norm_result = None
    /\ norm_prev = None

(* score.py:104-107, steps 1 and 2 of request i *)
ConcExtract(i) ==
    /\ OwnFrame(requests, i).pc = "read"
    /\ \E f \in {OwnFrame(requests, i)} :
       \E r \in {safe_extract_text(f.file.kind, f.file.content)} :
          requests' = [requests EXCEPT ![i].raw_text = r.text,
                                       ![i].parsing_errors = r.errors,
                                       ![i].pc = "sections"]
    /\ UNCHANGED concRest

(* score.py:110-132, step 3 *)
ConcSections(i) ==
    /\ OwnFrame(requests, i).pc = "sections"
    /\ \E f \in {OwnFrame(requests, i)} :
          requests' = [requests EXCEPT
                          ![i].parsed = ParsedOf(f.raw_text),
                          ![i].all_skills = extract_skills_from_resume(f.raw_text),
                          ![i].pc = "heuristics"]
    /\ UNCHANGED concRest

(* score.py:135-139, step 4 *)
ConcHeuristics(i) ==
    /\ OwnFrame(requests, i).pc = "heuristics"
    /\ \E f \in {OwnFrame(requests, i)} :
       \E h \in {compute_heuristics(f.raw_text, f.parsed, f.parsing_errors)} :
          requests' = [requests EXCEPT
                          ![i].heur = Some([score |-> h.score,
                                            feedback |-> h.feedback,
                                            breakdown |-> h.breakdown]),
                          ![i].pc = "relevance"]
    /\ UNCHANGED concRest

(* score.py:142-150, step 5 *)
ConcRelevance(i) ==
    /\ OwnFrame(requests, i).pc = "relevance"
    /\ \E f \in {OwnFrame(requests, i)} :
       \E rel \in RelevancesOf(f.raw_text, f.job_description) :
          requests' = [requests EXCEPT ![i].relevance = rel,
                                       ![i].pc = "normalize"]
    /\ UNCHANGED concRest

(* score.py:153, step 6 *)
ConcNormalize(i) ==
    /\ OwnFrame(requests, i).pc = "normalize"
    /\ \E f \in {OwnFrame(requests, i)} :
          requests' = [requests EXCEPT
                          ![i].norm = Some(normalize_score(f.heur[1].score,
                                                           f.relevance)),
                          ![i].pc = "feedback"]
    /\ UNCHANGED concRest

(* score.py:156-184, steps 7 to 9 *)
ConcFeedback(i) ==
    /\ OwnFrame(requests, i).pc = "feedback"
    /\ \E f \in {OwnFrame(requests, i)} :
       \E merged \in {DictMerge(f.heur[1].breakdown, f.norm[1].breakdown)} :
          requests' = [requests EXCEPT
                          ![i].response =
                              Some(ParseResult(f.raw_text, f.all_skills,
                                               f.parsing_errors, f.parsed,
                                               f.heur[1].feedback,
                                               f.norm[1].total, merged,
                                               f.relevance, sbert_enabled)),
                          ![i].pc = "done"]
    /\ UNCHANGED concRest

(* score.py:186-192, a step of request i raised *)
ConcExcept(i) ==
    /\ OwnFrame(requests, i).pc # "done"
    /\ requests' = [requests EXCEPT
                       ![i].response = Some([error |-> "Failed to parse",
                                             detail |-> "step failed"]),
                       ![i].pc = "done"]
    /\ UNCHANGED concRest

NextConc ==
    \E i \in 1..2 :
        \/ ConcExtract(i) \/ ConcSections(i) \/ ConcHeuristics(i)
        \/ ConcRelevance(i) \/ ConcNormalize(i) \/ ConcFeedback(i)
        \/ ConcExcept(i)

SpecConc == InitConc /\ [][NextConc]_vars

(* request f returned a scoring result, not the error record *)
Answered(f) ==
    f.pc = "done" /\ "error" \notin DOMAIN f.response[1]

(* the response of f is one that the same upload and job description get   *)
(* from the pipeline run on them alone                                     *)
AsAlone(f) ==
    \E x \in {safe_extract_text(f.file.kind, f.file.content)} :
    \E parsed \in {ParsedOf(x.text)} :
    \E h \in {compute_heuristics(x.text, parsed, x.errors)} :
    \E rel \in RelevancesOf(x.text, f.job_description) :
    \E n \in {normalize_score(h.score, rel)} :
        f.response =
            Some(ParseResult(x.text, extract_skills_from_resume(x.text),
                             x.errors, parsed, h.feedback, n.total,
                             DictMerge(h.breakdown, n.breakdown), rel,
                             sbert_enabled))

(* C21: two scoring requests run concurrently on independent inputs, their *)
(* steps interleaved in any way, each return the score, breakdown and      *)
(* feedback they return when run alone; a step of one request writes no    *)
(* variable of the other, and the shared embedding handle and              *)
(* configuration are only read.                                            *)
ConcurrentAsAlone ==
    [][/\ <<sbert_model, sbert_enabled, stop_words>>'
              = <<sbert_model, sbert_enabled, stop_words>>
       /\ \A i \in 1..2 :
              requests'[i] # requests[i] =>
                  \A j \in (1..2) \ {i} : requests'[j] = requests[j]
       /\ \A i \in 1..2 :
              (requests[i].pc # "done" /\ Answered(requests'[i])) =>
                  AsAlone(requests'[i])]_vars

(* C21 witness: both requests answered, with different scores above 0.     *)
ConcurrentAsAloneWitness ==
    /\ pc = "serving"
    /\ Answered(requests[1])
    /\ Answered(requests[2])
    /\ requests[1].response[1].atsScore > 0
    /\ requests[2].response[1].atsScore > requests[1].response[1].atsScore

=============================================================================
